---------------------------- MODULE Spec2Model ----------------------------
(***************************************************************************)
(* Model of the layout and style-resolution core of html.to.design-clone:  *)
(*   src/src/core/parseCSS.js     value parsers, style resolver            *)
(*   src/src/core/toDesignTree.js tree assembler, height estimator         *)
(*                                                                         *)
(* JavaScript numbers are modelled as exact rationals <<n, d>> (d > 0, in  *)
(* lowest terms) together with NaN = <<0, 0>>, +Infinity = <<1, 0>> and    *)
(* -Infinity = <<-1, 0>>.  JavaScript strings are TLA+ strings, read       *)
(* character by character with SubSeq.  `undefined` is the value Undefined.*)
(* A value the code names once and reads several times is passed as the    *)
(* parameter of a helper operator, so the helpers follow the code's        *)
(* statements in order.                                                    *)
(***************************************************************************)
EXTENDS Integers, Sequences, FiniteSets, TLC

VARIABLES
    document,   \* the DOM document handed to documentToDesignTree
    viewport,   \* the viewport record {width, height}
    pc,         \* position of the running call
    node,       \* documentToDesignTree: the root node under construction
    children,   \* processChildren (root level): `children` array so far
    currentY,   \* processChildren (root level): the vertical cursor
    index,      \* processChildren (root level): next child element to visit
    tree,       \* the value returned by documentToDesignTree
    element,    \* getComputedStyles: the element argument
    cssRules,   \* the rule list: collectStylesheets(document), or the argument
    computed,   \* getComputedStyles: the returned style record
    value,      \* value parsers: the CSS value argument
    parsed,     \* value parsers: the returned number / quad
    args,       \* extractColorPalette, computeFlexLayout: the arguments
    returned,   \* the value(s) returned by the function under call
    engineInstance, \* capture.js: the singleton, 0 for null
    engines,    \* the ScreenshotEngine objects constructed so far
    browsers,   \* the browser processes launched so far
    pages,      \* the pages opened so far
    calls       \* the asynchronous calls in flight, by caller

vars == <<document, viewport, pc, node, children, currentY, index, tree,
          element, cssRules, computed, value, parsed,
         args, returned, engineInstance, engines, browsers, pages, calls>>

\* the state of the layout core, of the function calls, of the capture engine
coreVars == <<document, viewport, pc, node, children, currentY, index, tree,
              element, cssRules, computed, value, parsed>>
callVars == <<args, returned>>
engineVars == <<engineInstance, engines, browsers, pages, calls>>

-----------------------------------------------------------------------------
(* JavaScript values *)

Undefined == "<undefined>"
Null == "<null>"

-----------------------------------------------------------------------------
(* JavaScript numbers *)

Abs(i) == IF i < 0 THEN -i ELSE i

RECURSIVE GCD(_, _)
GCD(a, b) == IF b = 0 THEN a ELSE GCD(b, a % b)

Lowest(n, d, g) == <<n \div g, d \div g>>
Reduce(n, d) == Lowest(n, d, GCD(Abs(n), d))
\* the rational n / d, d # 0
Num(n, d) == Reduce(IF d < 0 THEN -n ELSE n, Abs(d))

Whole(i) == <<i, 1>>
NaN == <<0, 0>>
Infinity == <<1, 0>>
NegInfinity == <<-1, 0>>
Zero == <<0, 1>>

IsNaN(a) == a = NaN
IsFinite(a) == a[2] # 0
Sign(a) == IF a[1] < 0 THEN -1 ELSE IF a[1] > 0 THEN 1 ELSE 0
Inf(s) == IF s < 0 THEN NegInfinity ELSE Infinity

\* !x and x || y on numbers: 0 and NaN are falsy
Truthy(a) == a # NaN /\ a # Zero
\* a || b on numbers
OrElse(a, b) == IF Truthy(a) THEN a ELSE b

Neg(a) == <<-a[1], a[2]>>

Add(a, b) ==
    IF IsNaN(a) \/ IsNaN(b) THEN NaN
    ELSE IF ~IsFinite(a) /\ ~IsFinite(b) THEN (IF a = b THEN a ELSE NaN)
    ELSE IF ~IsFinite(a) THEN a
    ELSE IF ~IsFinite(b) THEN b
    ELSE Num(a[1] * b[2] + b[1] * a[2], a[2] * b[2])

Sub(a, b) == Add(a, Neg(b))

Mul(a, b) ==
    IF IsNaN(a) \/ IsNaN(b) THEN NaN
    ELSE IF ~IsFinite(a) \/ ~IsFinite(b)
         THEN (IF Sign(a) * Sign(b) = 0 THEN NaN ELSE Inf(Sign(a) * Sign(b)))
    ELSE Num(a[1] * b[1], a[2] * b[2])

Div(a, b) ==
    IF IsNaN(a) \/ IsNaN(b) THEN NaN
    ELSE IF ~IsFinite(a) /\ ~IsFinite(b) THEN NaN
    ELSE IF ~IsFinite(a) THEN Inf(Sign(a) * (IF Sign(b) < 0 THEN -1 ELSE 1))
    ELSE IF ~IsFinite(b) THEN Zero
    ELSE IF b = Zero THEN (IF a = Zero THEN NaN ELSE Inf(Sign(a)))
    ELSE Num(a[1] * b[2], a[2] * b[1])

\* a < b; every comparison with NaN is false
Lt(a, b) ==
    /\ ~IsNaN(a) /\ ~IsNaN(b)
    /\ IF ~IsFinite(a) \/ ~IsFinite(b)
       THEN a # b /\ (a = NegInfinity \/ b = Infinity)
       ELSE a[1] * b[2] < b[1] * a[2]

Geq(a, b) == ~IsNaN(a) /\ ~IsNaN(b) /\ ~Lt(a, b)
Gt(a, b) == Lt(b, a)

\* Math.floor, Math.ceil, Math.round (halves round towards +Infinity), Math.max
Floor(a) == IF IsFinite(a) THEN Whole(a[1] \div a[2]) ELSE a
Ceil(a) == Neg(Floor(Neg(a)))
Round(a) == Floor(Add(a, <<1, 2>>))
Max(a, b) == IF IsNaN(a) \/ IsNaN(b) THEN NaN ELSE IF Lt(a, b) THEN b ELSE a

IsInteger(a) == IsFinite(a) /\ a[2] = 1

-----------------------------------------------------------------------------
(* JavaScript strings *)

Char(s, i) == SubSeq(s, i, i)
Substr(s, i, j) == SubSeq(s, i, j)

WhiteSpace == {" ", "\t", "\n"}
DigitChars == {"0", "1", "2", "3", "4", "5", "6", "7", "8", "9"}
DigitValue == "0" :> 0 @@ "1" :> 1 @@ "2" :> 2 @@ "3" :> 3 @@ "4" :> 4 @@
              "5" :> 5 @@ "6" :> 6 @@ "7" :> 7 @@ "8" :> 8 @@ "9" :> 9

endsWith(s, suffix) ==
    /\ Len(s) >= Len(suffix)
    /\ Substr(s, Len(s) - Len(suffix) + 1, Len(s)) = suffix

startsWithAt(s, i, prefix) ==
    /\ Len(s) >= i + Len(prefix) - 1
    /\ Substr(s, i, i + Len(prefix) - 1) = prefix

CharIn(s, i, cs) == i >= 1 /\ i <= Len(s) /\ Char(s, i) \in cs

RECURSIVE trimStart(_)
trimStart(s) ==
    IF CharIn(s, 1, WhiteSpace) THEN trimStart(Substr(s, 2, Len(s))) ELSE s

RECURSIVE trimEnd(_)
trimEnd(s) ==
    IF CharIn(s, Len(s), WhiteSpace) THEN trimEnd(Substr(s, 1, Len(s) - 1))
    ELSE s

trim(s) == trimEnd(trimStart(s))

\* first index >= i of s that holds no decimal digit
RECURSIVE ScanDigits(_, _)
ScanDigits(s, i) == IF CharIn(s, i, DigitChars) THEN ScanDigits(s, i + 1) ELSE i

\* the decimal value of s[i .. j-1]
RECURSIVE DigitsToInt(_, _, _)
DigitsToInt(s, i, j) ==
    IF j <= i THEN 0
    ELSE DigitsToInt(s, i, j - 1) * 10 + DigitValue[Char(s, j - 1)]

RECURSIVE Pow10(_)
Pow10(k) == IF k <= 0 THEN 1 ELSE 10 * Pow10(k - 1)

\* parseFloat: leading white space, then the longest prefix that is a
\* decimal literal (sign, Infinity, digits, fraction, exponent); NaN if none.
\* s is the text without leading white space, p0 the index after the sign,
\* p1 the end of the integer digits, p2 the end of the mantissa, e0 and e1
\* the bounds of the exponent digits.
scaleBy(m, s, eNeg, e0, e1) ==
    IF e1 <= e0 THEN m
    ELSE IF eNeg THEN Div(m, Whole(Pow10(DigitsToInt(s, e0, e1))))
    ELSE Mul(m, Whole(Pow10(DigitsToInt(s, e0, e1))))

exponentFrom(m, s, eNeg, e0) == scaleBy(m, s, eNeg, e0, ScanDigits(s, e0))

applyExponent(m, s, p2) ==
    IF CharIn(s, p2, {"e", "E"})
    THEN exponentFrom(m, s, CharIn(s, p2 + 1, {"-"}),
                      IF CharIn(s, p2 + 1, {"+", "-"}) THEN p2 + 2 ELSE p2 + 1)
    ELSE m

mantissa(s, p0, p1, p2, nFrac) ==
    Num(DigitsToInt(s, p0, p1) * Pow10(nFrac) + DigitsToInt(s, p1 + 1, p2),
        Pow10(nFrac))

parseMantissa(s, p0, p1, p2, nFrac) ==
    IF p1 = p0 /\ nFrac = 0 THEN NaN
    ELSE applyExponent(mantissa(s, p0, p1, p2, nFrac), s, p2)

parseFraction(s, p0, p1, p2) ==
    parseMantissa(s, p0, p1, p2, IF p2 > p1 THEN p2 - p1 - 1 ELSE 0)

parseDigits(s, p0, p1) ==
    parseFraction(s, p0, p1,
                  IF CharIn(s, p1, {"."}) THEN ScanDigits(s, p1 + 1) ELSE p1)

parseUnsigned(s, p0) ==
    IF startsWithAt(s, p0, "Infinity") THEN Infinity
    ELSE parseDigits(s, p0, ScanDigits(s, p0))

parseSigned(s) ==
    Mul(IF CharIn(s, 1, {"-"}) THEN Whole(-1) ELSE Whole(1),
        parseUnsigned(s, IF CharIn(s, 1, {"+", "-"}) THEN 2 ELSE 1))

parseFloat(str) == parseSigned(trimStart(str))

-----------------------------------------------------------------------------
(* String.prototype helpers used by the parsers *)

UpperOf == "a" :> "A" @@ "b" :> "B" @@ "c" :> "C" @@ "d" :> "D" @@ "e" :> "E" @@
           "f" :> "F" @@ "g" :> "G" @@ "h" :> "H" @@ "i" :> "I" @@ "j" :> "J" @@
           "k" :> "K" @@ "l" :> "L" @@ "m" :> "M" @@ "n" :> "N" @@ "o" :> "O" @@
           "p" :> "P" @@ "q" :> "Q" @@ "r" :> "R" @@ "s" :> "S" @@ "t" :> "T" @@
           "u" :> "U" @@ "v" :> "V" @@ "w" :> "W" @@ "x" :> "X" @@ "y" :> "Y" @@
           "z" :> "Z"
LowerOf == "A" :> "a" @@ "B" :> "b" @@ "C" :> "c" @@ "D" :> "d" @@ "E" :> "e" @@
           "F" :> "f" @@ "G" :> "g" @@ "H" :> "h" @@ "I" :> "i" @@ "J" :> "j" @@
           "K" :> "k" @@ "L" :> "l" @@ "M" :> "m" @@ "N" :> "n" @@ "O" :> "o" @@
           "P" :> "p" @@ "Q" :> "q" @@ "R" :> "r" @@ "S" :> "s" @@ "T" :> "t" @@
           "U" :> "u" @@ "V" :> "v" @@ "W" :> "w" @@ "X" :> "x" @@ "Y" :> "y" @@
           "Z" :> "z"

lowerChar(c) == IF c \in DOMAIN LowerOf THEN LowerOf[c] ELSE c

\* str.toLowerCase()
RECURSIVE toLowerCase(_)
toLowerCase(s) ==
    IF Len(s) = 0 THEN ""
    ELSE lowerChar(Char(s, 1)) \o toLowerCase(Substr(s, 2, Len(s)))

\* index of the first character of s at or after i that is in set cs, or 0
RECURSIVE IndexOfAny(_, _, _)
IndexOfAny(s, cs, i) ==
    IF i > Len(s) THEN 0
    ELSE IF Char(s, i) \in cs THEN i
    ELSE IndexOfAny(s, cs, i + 1)

\* str.split(sep) for a one-character separator: every piece, empty ones too
RECURSIVE split(_, _)
splitAt(s, sep, i) ==
    IF i = 0 THEN <<s>>
    ELSE <<Substr(s, 1, i - 1)>> \o split(Substr(s, i + 1, Len(s)), sep)

split(s, sep) == splitAt(s, sep, IndexOfAny(s, {sep}, 1))

\* str.split(/\s+/): pieces between maximal runs of white space; a leading
\* or trailing run leaves an empty first or last piece
RECURSIVE splitWhiteSpace(_)
splitWhiteSpaceAt(s, i) ==
    IF i = 0 THEN <<s>>
    ELSE <<Substr(s, 1, i - 1)>>
             \o splitWhiteSpace(trimStart(Substr(s, i, Len(s))))

splitWhiteSpace(s) == splitWhiteSpaceAt(s, IndexOfAny(s, WhiteSpace, 1))

\* /^\d+$/.test(s)
IsAllDigits(s) == Len(s) > 0 /\ ScanDigits(s, 1) = Len(s) + 1

\* !value for a string, null or undefined
Falsy(v) == v = Undefined \/ v = Null \/ v = ""

-----------------------------------------------------------------------------
(* parseCSS.js: camelCase *)

RECURSIVE camelCase(_)
camelCase(str) ==
    IF Len(str) = 0 THEN ""
    ELSE IF CharIn(str, 1, {"-"}) /\ CharIn(str, 2, DOMAIN UpperOf)
    THEN UpperOf[Char(str, 2)] \o camelCase(Substr(str, 3, Len(str)))
    ELSE Char(str, 1) \o camelCase(Substr(str, 2, Len(str)))

-----------------------------------------------------------------------------
(* parseCSS.js: value parsers.  Style values are strings or undefined in   *)
(* every caller, so the `typeof value === 'number'` branch is not taken.   *)

\* unitValue with the factor 16 of em and rem forgotten
unitValueEmAsPx(str, num) ==
    IF endsWith(str, "px") \/ endsWith(str, "em") THEN num
    ELSE IF endsWith(str, "%") THEN Zero
    ELSE IF IsNaN(num) THEN Zero ELSE num

\* the unit tests of parsePixelValue on the trimmed text, num = parseFloat(str)
unitValue(str, num) ==
    IF endsWith(str, "px") THEN num
    ELSE IF endsWith(str, "em") THEN Mul(num, Whole(16))
    ELSE IF endsWith(str, "rem") THEN Mul(num, Whole(16))
    ELSE IF endsWith(str, "%") THEN Zero
    ELSE IF IsNaN(num) THEN Zero ELSE num

pixelsOf(str) == unitValue(str, parseFloat(str))

parsePixelValue(v) == IF Falsy(v) THEN Zero ELSE pixelsOf(trim(v))

Quad(t, r, b, l) == [top |-> t, right |-> r, bottom |-> b, left |-> l]
ZeroQuad == Quad(Zero, Zero, Zero, Zero)

\* quadOf with the three-token case taking left from the third token
quadOfLeftFromBottom(parts) ==
    CASE Len(parts) = 1 -> Quad(parts[1], parts[1], parts[1], parts[1])
      [] Len(parts) = 2 -> Quad(parts[1], parts[2], parts[1], parts[2])
      [] Len(parts) = 3 -> Quad(parts[1], parts[2], parts[3], parts[3])
      [] Len(parts) = 4 -> Quad(parts[1], parts[2], parts[3], parts[4])
      [] OTHER -> ZeroQuad

\* the switch of parseSpacing on parts.length
quadOf(parts) ==
    CASE Len(parts) = 1 -> Quad(parts[1], parts[1], parts[1], parts[1])
      [] Len(parts) = 2 -> Quad(parts[1], parts[2], parts[1], parts[2])
      [] Len(parts) = 3 -> Quad(parts[1], parts[2], parts[3], parts[2])
      [] Len(parts) = 4 -> Quad(parts[1], parts[2], parts[3], parts[4])
      [] OTHER -> ZeroQuad

\* tokens.map(parsePixelValue)
mapPixelValue(tokens) == [i \in 1..Len(tokens) |-> parsePixelValue(tokens[i])]

parseSpacing(v) ==
    IF Falsy(v) \/ v = "auto" THEN ZeroQuad
    ELSE quadOf(mapPixelValue(splitWhiteSpace(v)))

BorderStyles == {"solid", "dashed", "dotted", "double", "none"}
NoBorder == [width |-> Zero, style |-> "none", color |-> "transparent",
             radius |-> Zero]

\* the body of the loop of parseBorder
borderPart(result, part) ==
    IF endsWith(part, "px") \/ IsAllDigits(part)
    THEN [result EXCEPT !.width = parsePixelValue(part)]
    ELSE IF part \in BorderStyles THEN [result EXCEPT !.style = part]
    ELSE [result EXCEPT !.color = part]

RECURSIVE parseBorderParts(_, _)
parseBorderParts(parts, result) ==
    IF Len(parts) = 0 THEN result
    ELSE parseBorderParts(Tail(parts), borderPart(result, Head(parts)))

parseBorder(v) ==
    IF Falsy(v) \/ v = "none" THEN NoBorder
    ELSE parseBorderParts(splitWhiteSpace(v), NoBorder)

-----------------------------------------------------------------------------
(* The DOM abstraction (jsdom): elements and text nodes.  element.style is *)
(* getAttribute('style') (Null when the attribute is absent); hasMatches   *)
(* says whether the element exposes matches(selector).                     *)

Element(tag, id, classes, style, kids) ==
    [nodeType |-> 1, tagName |-> tag, id |-> id, classList |-> classes,
     style |-> style, hasMatches |-> TRUE, childNodes |-> kids]

Text(str) == [nodeType |-> 3, textContent |-> str]

NoElement == [null |-> TRUE]
IsNull(x) == "null" \in DOMAIN x

\* element.children: the child nodes that are elements, in document order
ChildElements(el) == SelectSeq(el.childNodes, LAMBDA n : n.nodeType = 1)

IsIdentChar(c) ==
    c \in DOMAIN UpperOf \/ c \in DOMAIN LowerOf \/ c \in DigitChars \/ c = "-"

\* element.matches(selector) for the selector forms the rule lists use: the
\* universal selector, a class selector, a type selector; any other text is
\* a malformed selector, for which matches throws a SyntaxError
ElementMatches(el, selector) ==
    IF selector = "*" THEN "true"
    ELSE IF Len(selector) >= 2 /\ Char(selector, 1) = "."
            /\ \A i \in 2..Len(selector) : IsIdentChar(Char(selector, i))
    THEN (IF \E i \in 1..Len(el.classList) :
                 el.classList[i] = Substr(selector, 2, Len(selector))
          THEN "true" ELSE "false")
    ELSE IF \A i \in 1..Len(selector) : IsIdentChar(Char(selector, i))
    THEN (IF el.tagName # Undefined
             /\ toLowerCase(el.tagName) = toLowerCase(selector)
          THEN "true" ELSE "false")
    ELSE "throw"

-----------------------------------------------------------------------------
(* parseCSS.js: style resolver *)

EmptyObject == <<>>

Get(obj, key) == IF key \in DOMAIN obj THEN obj[key] ELSE Undefined
Set(obj, key, v) == (key :> v) @@ obj
\* Object.assign(target, source)
Assign(target, source) == source @@ target

\* if (property && value) styles[camelCase(property)] = value
declare(styles, property, val) ==
    IF property # "" /\ ~Falsy(val) THEN Set(styles, camelCase(property), val)
    ELSE styles

\* const [property, value] = declaration.split(':').map(s => s?.trim())
parseDeclaration(styles, pieces) ==
    declare(styles, trim(pieces[1]),
            IF Len(pieces) >= 2 THEN trim(pieces[2]) ELSE Undefined)

RECURSIVE parseDeclarations(_, _)
parseDeclarations(declarations, styles) ==
    IF Len(declarations) = 0 THEN styles
    ELSE parseDeclarations(Tail(declarations),
                           parseDeclaration(styles, split(Head(declarations), ":")))

parseInlineStyle(styleAttr) ==
    IF Falsy(styleAttr) THEN EmptyObject
    ELSE parseDeclarations(split(styleAttr, ";"), EmptyObject)

\* tryMatches with a catch block that reports a match
catchAsMatch(outcome) == outcome # "false"

\* try { ... return element.matches(selector) } catch { return false }
tryMatches(outcome) == IF outcome = "throw" THEN FALSE ELSE outcome = "true"

matchesSelector(el, selector) ==
    IF el.hasMatches THEN tryMatches(ElementMatches(el, selector)) ELSE FALSE

InlineTags == {"span", "a", "strong", "em", "b", "i", "label"}

GenericDefaults ==
    [display |-> "block", position |-> "static", margin |-> "0",
     padding |-> "0", border |-> "none", background |-> "transparent",
     color |-> "inherit", fontSize |-> "16px", fontFamily |-> "inherit",
     fontWeight |-> "normal", lineHeight |-> "normal", textAlign |-> "left",
     width |-> "auto", height |-> "auto"]

HeadingDefaults ==
    [h1 |-> [fontSize |-> "32px", fontWeight |-> "bold", margin |-> "0.67em 0"],
     h2 |-> [fontSize |-> "24px", fontWeight |-> "bold", margin |-> "0.83em 0"],
     h3 |-> [fontSize |-> "18.72px", fontWeight |-> "bold", margin |-> "1em 0"],
     h4 |-> [fontSize |-> "16px", fontWeight |-> "bold", margin |-> "1.33em 0"],
     h5 |-> [fontSize |-> "13.28px", fontWeight |-> "bold", margin |-> "1.67em 0"],
     h6 |-> [fontSize |-> "10.72px", fontWeight |-> "bold", margin |-> "2.33em 0"]]

BodyDefaults ==
    [margin |-> "8px", background |-> "rgb(255, 255, 255)",
     color |-> "rgb(0, 0, 0)"]

getDefaultStyles(tagName) ==
    Assign(Assign(Assign(Assign(GenericDefaults,
        IF tagName \in InlineTags THEN [display |-> "inline"] ELSE EmptyObject),
        IF tagName \in DOMAIN HeadingDefaults THEN HeadingDefaults[tagName]
        ELSE EmptyObject),
        IF tagName = "p" THEN [margin |-> "1em 0"] ELSE EmptyObject),
        IF tagName = "body" THEN BodyDefaults ELSE EmptyObject)

\* A rule of the list (cssom): a style rule has selectorText and style, an
\* at-rule (@media, @import, ...) has neither.  rule.style is a
\* CSSStyleDeclaration: style[i] is the i-th property name and
\* getPropertyValue(name) its value; modelled as a sequence of
\* <<name, value>> with distinct names
StyleRule(selector, declarations) ==
    [selectorText |-> selector, style |-> declarations]
AtRule(text) == [cssText |-> text]

firstValue(hits) == IF Len(hits) = 0 THEN "" ELSE hits[1][2]
getPropertyValue(style, prop) ==
    firstValue(SelectSeq(style, LAMBDA d : d[1] = prop))

\* if (value) computed[camelCase(prop)] = value
setIfValue(computedStyles, prop, val) ==
    IF ~Falsy(val) THEN Set(computedStyles, camelCase(prop), val)
    ELSE computedStyles

RECURSIVE applyDeclarations(_, _, _)
applyDeclarations(computedStyles, style, i) ==
    IF i > Len(style) THEN computedStyles
    ELSE applyDeclarations(
             setIfValue(computedStyles, style[i][1],
                        getPropertyValue(style, style[i][1])),
             style, i + 1)

\* one iteration of the rule loop of getComputedStyles
applyRule(computedStyles, el, rule) ==
    IF Falsy(Get(rule, "selectorText")) \/ "style" \notin DOMAIN rule
    THEN computedStyles
    ELSE IF matchesSelector(el, rule.selectorText)
    THEN applyDeclarations(computedStyles, rule.style, 1)
    ELSE computedStyles

RECURSIVE applyRules(_, _, _)
applyRules(computedStyles, el, rules) ==
    IF Len(rules) = 0 THEN computedStyles
    ELSE applyRules(applyRule(computedStyles, el, Head(rules)), el, Tail(rules))

\* getComputedStyles with the inline style laid over the defaults before the
\* rules are applied
inlineBeforeRules(el, rules) ==
    applyRules(Assign(getDefaultStyles(IF el.tagName = Undefined THEN Undefined
                                       ELSE toLowerCase(el.tagName)),
                      parseInlineStyle(el.style)),
               el, rules)

getComputedStyles(el, rules) ==
    Assign(applyRules(getDefaultStyles(IF el.tagName = Undefined THEN Undefined
                                       ELSE toLowerCase(el.tagName)),
                      el, rules),
           parseInlineStyle(el.style))

-----------------------------------------------------------------------------
(* parseDOM.js: getElementType *)

getElementType(tagName) ==
    IF tagName \in {"p", "span", "h1", "h2", "h3", "h4", "h5", "h6", "a",
                    "label", "li"} THEN "text"
    ELSE IF tagName \in {"img", "picture"} THEN "image"
    ELSE IF tagName \in {"svg"} THEN "svg"
    ELSE "frame"

-----------------------------------------------------------------------------
(* toDesignTree.js: content-height estimator *)

RECURSIVE concatText(_)
concatText(nodes) ==
    IF Len(nodes) = 0 THEN ""
    ELSE (IF Head(nodes).nodeType = 3 THEN Head(nodes).textContent ELSE "")
             \o concatText(Tail(nodes))

\* text.trim() || null
textOrNull(text) == IF text = "" THEN Null ELSE text
getDirectTextContent(el) == textOrNull(trim(concatText(el.childNodes)))

\* const charsPerLine = Math.floor(containerWidth / charWidth)
charsPerLine(styles, fontSizePx) ==
    Floor(Div(OrElse(parsePixelValue(Get(styles, "width")), Whole(1000)),
              Mul(OrElse(fontSizePx, Whole(16)), <<1, 2>>)))

\* the `if (text)` block: lines * lineHeight, else the initial lineHeight
textHeight(text, styles, fontSizePx, lineHeight) ==
    IF text # Null
    THEN Mul(Max(Whole(1),
                 Ceil(Div(Whole(Len(text)), charsPerLine(styles, fontSizePx)))),
             lineHeight)
    ELSE lineHeight

\* the `if (element.children.length > 0)` block
childrenHeight(contentHeight, nChildren, lineHeight) ==
    IF nChildren > 0
    THEN Max(contentHeight, Mul(Whole(nChildren), lineHeight))
    ELSE contentHeight

\* return contentHeight + padding.top + padding.bottom
paddedHeight(contentHeight, padding) ==
    Add(Add(contentHeight, padding.top), padding.bottom)

estimateWithLineHeight(el, styles, fontSizePx, lineHeight) ==
    paddedHeight(
        childrenHeight(
            textHeight(getDirectTextContent(el), styles, fontSizePx, lineHeight),
            Len(ChildElements(el)), lineHeight),
        parseSpacing(Get(styles, "padding")))

\* lineHeight = parsePixelValue(lineHeight) || parsePixelValue(fontSize) * 1.4 || 22
estimateWithFontSize(el, styles, fontSizePx) ==
    estimateWithLineHeight(el, styles, fontSizePx,
        OrElse(parsePixelValue(Get(styles, "lineHeight")),
               OrElse(Mul(fontSizePx, <<7, 5>>), Whole(22))))

estimateElementHeight(el, styles) ==
    estimateWithFontSize(el, styles, parsePixelValue(Get(styles, "fontSize")))

-----------------------------------------------------------------------------
(* toDesignTree.js: box model *)

\* "Calculate width": width is styles.width, parsedWidth its parsePixelValue
nodeWidth(width, parsedWidth, vp, margin) ==
    IF width # Undefined /\ endsWith(width, "%")
    THEN Mul(Div(parseFloat(width), Whole(100)), vp.width)
    ELSE IF ~Truthy(parsedWidth) \/ width = "auto"
    THEN Sub(Sub(vp.width, margin.left), margin.right)
    ELSE parsedWidth

\* "Calculate height"
nodeHeight(el, styles, parsedHeight) ==
    IF ~Truthy(parsedHeight) \/ Get(styles, "height") = "auto"
    THEN estimateElementHeight(el, styles)
    ELSE parsedHeight

layoutWithMargin(el, styles, vp, offsetX, offsetY, margin) ==
    [x |-> Round(Add(offsetX, margin.left)),
     y |-> Round(Add(offsetY, margin.top)),
     w |-> Round(nodeWidth(Get(styles, "width"),
                           parsePixelValue(Get(styles, "width")), vp, margin)),
     h |-> Round(nodeHeight(el, styles, parsePixelValue(Get(styles, "height"))))]

computeNodeLayout(el, styles, vp, offsetX, offsetY) ==
    layoutWithMargin(el, styles, vp, offsetX, offsetY,
                     parseSpacing(Get(styles, "margin")))

-----------------------------------------------------------------------------
(* toDesignTree.js: style output builder *)

AnyTruthy(q) ==
    Truthy(q.top) \/ Truthy(q.right) \/ Truthy(q.bottom) \/ Truthy(q.left)

\* if (cond) obj[key] = v
putIf(obj, cond, key, v) == IF cond THEN Set(obj, key, v) ELSE obj

\* if (quad.top || quad.right || quad.bottom || quad.left) style[key] = quad
putQuad(style, key, quad) == putIf(style, AnyTruthy(quad), key, quad)

\* putBorder with the test border.width >= 0
putBorderFromZero(style, border) ==
    putIf(style, Geq(border.width, Zero), "border", border)

\* if (border.width > 0) style.border = border
putBorder(style, border) == putIf(style, Gt(border.width, Zero), "border", border)

\* style.border = style.border || {}; style.border.radius = radius
withRadius(style, radius) ==
    Set(style, "border", Set((IF "border" \in DOMAIN style THEN style.border ELSE EmptyObject), "radius", radius))

\* if (computed.borderRadius) { ... }
radiusIf(style, borderRadius) ==
    IF ~Falsy(borderRadius) THEN withRadius(style, parsePixelValue(borderRadius))
    ELSE style

buildStyleObject(c) ==
    LET s1 == putIf(EmptyObject,
                    ~Falsy(Get(c, "background"))
                        /\ Get(c, "background") # "transparent",
                    "background", Get(c, "background"))
        s2 == putIf(s1, ~Falsy(Get(c, "backgroundColor"))
                        /\ Get(c, "backgroundColor") # "transparent",
                    "background", Get(c, "backgroundColor"))
        s3 == putIf(s2, ~Falsy(Get(c, "color")) /\ Get(c, "color") # "inherit",
                    "color", Get(c, "color"))
        s4 == putIf(s3, ~Falsy(Get(c, "fontSize")),
                    "fontSize", Get(c, "fontSize"))
        s5 == putIf(s4, ~Falsy(Get(c, "fontFamily"))
                        /\ Get(c, "fontFamily") # "inherit",
                    "fontFamily", Get(c, "fontFamily"))
        s6 == putIf(s5, ~Falsy(Get(c, "fontWeight"))
                        /\ Get(c, "fontWeight") # "normal",
                    "fontWeight", Get(c, "fontWeight"))
        s7 == putIf(s6, ~Falsy(Get(c, "textAlign"))
                        /\ Get(c, "textAlign") # "left",
                    "textAlign", Get(c, "textAlign"))
        s8 == putQuad(s7, "padding", parseSpacing(Get(c, "padding")))
        s9 == putQuad(s8, "margin", parseSpacing(Get(c, "margin")))
        s10 == putBorder(s9, parseBorder(Get(c, "border")))
        s11 == radiusIf(s10, Get(c, "borderRadius"))
        s12 == putIf(s11, ~Falsy(Get(c, "display"))
                          /\ Get(c, "display") # "block",
                     "display", Get(c, "display"))
        s13 == putIf(s12, ~Falsy(Get(c, "flexDirection")),
                     "flexDirection", Get(c, "flexDirection"))
        s14 == putIf(s13, ~Falsy(Get(c, "justifyContent")),
                     "justifyContent", Get(c, "justifyContent"))
        s15 == putIf(s14, ~Falsy(Get(c, "alignItems")),
                     "alignItems", Get(c, "alignItems"))
        s16 == putIf(s15, ~Falsy(Get(c, "gap")),
                     "gap", parsePixelValue(Get(c, "gap")))
    IN  putIf(s16, ~Falsy(Get(c, "opacity")) /\ Get(c, "opacity") # "1",
              "opacity", parseFloat(Get(c, "opacity")))

-----------------------------------------------------------------------------
(* toDesignTree.js: tree assembler *)

\* SkipTags without script
SkipTagsWithoutScript == {"style", "noscript", "meta", "link", "head"}

SkipTags == {"script", "style", "noscript", "meta", "link", "head"}

\* element.tagName?.toLowerCase() || 'div'
tagNameOf(el) ==
    IF Falsy(el.tagName) THEN "div" ELSE toLowerCase(el.tagName)

\* IsHidden without the test of visibility
IsHiddenDisplayOnly(computedStyles) == Get(computedStyles, "display") = "none"

IsHidden(computedStyles) ==
    \/ Get(computedStyles, "display") = "none"
    \/ Get(computedStyles, "visibility") = "hidden"

\* node.text, node.src, node.id, node.classes
withText(n, type, textContent) ==
    putIf(n, type = "text" /\ textContent # Null, "text", textContent)

withMetadata(n, el, type) ==
    putIf(putIf(putIf(withText(n, type, getDirectTextContent(el)),
                      type = "image" /\ ~Falsy(Get(el, "src")),
                      "src", Get(el, "src")),
                ~Falsy(el.id), "id", el.id),
          Len(el.classList) > 0, "classes", el.classList)

\* elementToDesignNode from "Skip hidden elements" to "Process children"
styledNode(el, tagName, computedStyles, vp, offsetX, offsetY) ==
    IF IsHidden(computedStyles) THEN NoElement
    ELSE withMetadata(
             [type |-> getElementType(tagName), name |-> tagName,
              layout |-> computeNodeLayout(el, computedStyles, vp,
                                           offsetX, offsetY),
              style |-> buildStyleObject(computedStyles)],
             el, getElementType(tagName))

\* elementToDesignNode up to "Process children": null, or the node without
\* its children
taggedNode(el, tagName, rules, vp, offsetX, offsetY) ==
    IF tagName \in SkipTags THEN NoElement
    ELSE styledNode(el, tagName, getComputedStyles(el, rules), vp,
                    offsetX, offsetY)

designNode(el, rules, vp, offsetX, offsetY) ==
    taggedNode(el, tagNameOf(el), rules, vp, offsetX, offsetY)

\* attachChildren with the children in reverse order
attachReversed(n, kids) ==
    putIf(n, Len(kids) > 0, "children",
          [i \in 1..Len(kids) |-> kids[Len(kids) + 1 - i]])

\* if (children.length > 0) node.children = children
attachChildren(n, kids) == putIf(n, Len(kids) > 0, "children", kids)

RECURSIVE elementToDesignNode(_, _, _, _, _)

\* pushNode reserving a default line of 22px for a child without a node
pushNodeAdvancing(acc, n) ==
    IF IsNull(n) THEN [acc EXCEPT !.currentY = Add(acc.currentY, Whole(22))]
    ELSE [children |-> Append(acc.children, n),
          currentY |-> Add(n.layout.y, n.layout.h)]

\* if (node) { children.push(node); currentY = node.layout.y + node.layout.h }
pushNode(acc, n) ==
    IF IsNull(n) THEN acc
    ELSE [children |-> Append(acc.children, n),
          currentY |-> Add(n.layout.y, n.layout.h)]

\* processChild with the child placed from the left edge of the viewport
processChildAtOrigin(acc, child, rules, vp, parentLayout) ==
    pushNode(acc, elementToDesignNode(child, rules, vp, Zero, acc.currentY))

\* one iteration of the loop of processChildren
processChild(acc, child, rules, vp, parentLayout) ==
    pushNode(acc, elementToDesignNode(child, rules, vp, parentLayout.x,
                                      acc.currentY))

RECURSIVE processChildrenLoop(_, _, _, _, _)
processChildrenLoop(acc, elems, rules, vp, parentLayout) ==
    IF Len(elems) = 0 THEN acc
    ELSE processChildrenLoop(
             processChild(acc, Head(elems), rules, vp, parentLayout),
             Tail(elems), rules, vp, parentLayout)

processChildren(parent, rules, vp, parentLayout) ==
    processChildrenLoop([children |-> <<>>, currentY |-> parentLayout.y],
                        ChildElements(parent), rules, vp, parentLayout).children

\* "Process children" to the end of elementToDesignNode
withChildren(n, el, rules, vp) ==
    IF IsNull(n) THEN n
    ELSE attachChildren(n, processChildren(el, rules, vp, n.layout))

elementToDesignNode(el, rules, vp, offsetX, offsetY) ==
    withChildren(designNode(el, rules, vp, offsetX, offsetY), el, rules, vp)

createEmptyDesignTree(vp) ==
    [type |-> "frame", name |-> "body",
     layout |-> [x |-> Zero, y |-> Zero, w |-> vp.width, h |-> vp.height],
     style |-> [background |-> "rgb(255, 255, 255)"],
     children |-> <<>>]

RECURSIVE concatRules(_)
concatRules(sheets) ==
    IF Len(sheets) = 0 THEN <<>>
    ELSE (IF "cssRules" \in DOMAIN Head(sheets) THEN Head(sheets).cssRules
          ELSE <<>>) \o concatRules(Tail(sheets))

\* document.styleSheets: parseCSS(styleTag.textContent) of every <style> tag
collectStylesheets(doc) == concatRules(doc.styleSheets)

-----------------------------------------------------------------------------
(* Bounds of the model *)

\* child elements of <body> in the documents converted
MaxChildren == 3
\* white-space separated tokens in the spacing values parsed
MaxTokens == 4
\* rules in the rule lists handed to getComputedStyles
MaxRules == 3

SeqsUpTo(S, n) == UNION {[1..k -> S] : k \in 0..n}

-----------------------------------------------------------------------------
(* Input documents.  Every element of a document carries a distinct id (its *)
(* path from <body>), which elementToDesignNode copies to the node.         *)

DigitStr == <<"1", "2", "3", "4", "5", "6", "7", "8", "9">>

\* number of element nodes among the first i of nodes
RECURSIVE elementCount(_, _)
elementCount(nodes, i) ==
    IF i = 0 THEN 0
    ELSE elementCount(nodes, i - 1) + (IF nodes[i].nodeType = 1 THEN 1 ELSE 0)

\* el, with id `path` and every descendant element's id made of its path
RECURSIVE withIds(_, _)
withIds(el, path) ==
    [el EXCEPT
        !.id = path,
        !.childNodes = [i \in 1..Len(el.childNodes) |->
            IF el.childNodes[i].nodeType = 1
            THEN withIds(el.childNodes[i],
                         path \o "." \o DigitStr[elementCount(el.childNodes, i)])
            ELSE el.childNodes[i]]]

DivEl(style, kids) == Element("DIV", "", <<>>, style, kids)

\* the elements <body> is filled with
ChildPalette ==
    { Element("P", "", <<>>, "color:red", <<Text("Hello world")>>),
      Element("H1", "", <<>>, Null, <<Text("Hi")>>),
      Element("DIV", "", <<"hide">>, "height: 40px",
              <<Element("P", "", <<>>, "display:block", <<Text("nested")>>),
                DivEl(Null, <<>>)>>),
      Element("SCRIPT", "", <<>>, "display:block",
              <<Text("var x;"), DivEl(Null, <<>>)>>),
      DivEl("margin:-10px 0;height:50px", <<>>),
      DivEl("padding:5px",
            <<Element("SPAN", "", <<>>, Null, <<Text("a")>>),
              DivEl("visibility:hidden", <<DivEl("height:30px", <<>>)>>),
              Element("NOSCRIPT", "", <<>>, Null, <<>>),
              DivEl("height:30px; margin: 4px 0 6px", <<>>),
              DivEl("display:none", <<>>)>>) }

Body(style, kids) == withIds(Element("BODY", "", <<>>, style, kids), "b")

StyleSheetLists ==
    { <<>>,
      << [cssRules |-> << StyleRule(".hide", <<<<"display", "none">>>>),
                          AtRule("@media print"),
                          StyleRule("[[", <<<<"visibility", "hidden">>>>),
                          StyleRule("p", <<<<"margin", "0">>,
                                           <<"line-height", "20px">>>>) >>] >> }

Documents ==
    { [body |-> b, styleSheets |-> sh] :
        b \in {NoElement} \cup {Body("display:none", <<DivEl(Null, <<>>)>>)}
              \cup {Body(Null, kids) : kids \in SeqsUpTo(ChildPalette, MaxChildren)},
        sh \in StyleSheetLists }

DEFAULT_VIEWPORT == [width |-> Whole(1200), height |-> Whole(800)]

-----------------------------------------------------------------------------
(* Inputs of getComputedStyles *)

StyleElements ==
    { Element("P", "", <<"a">>, "color:red", <<>>),
      Element("P", "", <<>>, Null, <<>>),
      Element("DIV", "", <<"a">>, Null, <<>>),
      Element("DIV", "", <<"b", "a">>, "color: red ; width:10px;", <<>>),
      Element("SPAN", "", <<>>, "display:block;display:flex", <<>>),
      Element("H1", "", <<"a">>, "font-size:12px;background-color:white", <<>>),
      Element("P", "", <<"b">>, "margin:;color;:red;COLOR:red", <<>>),
      Element("BODY", "", <<>>, "background:url(http://x/y.png)", <<>>),
      Element(Undefined, "", <<"a">>, Null, <<>>),
      [Element("P", "", <<"a">>, Null, <<>>) EXCEPT !.hasMatches = FALSE],
      [Element("P", "", <<"a">>, "color:red", <<>>) EXCEPT !.hasMatches = FALSE] }

RulePalette ==
    { StyleRule("*", <<<<"color", "black">>, <<"margin", "1px">>>>),
      StyleRule(".a", <<<<"color", "blue">>, <<"background-color", "yellow">>>>),
      StyleRule("p", <<<<"color", "green">>, <<"display", "none">>>>),
      StyleRule("[[", <<<<"color", "pink">>, <<"width", "1px">>>>),
      AtRule("@media print") }

RuleLists == SeqsUpTo(RulePalette, MaxRules)

-----------------------------------------------------------------------------
(* Inputs of the value parsers.  Every value is free of leading and        *)
(* trailing white space, as parseInlineStyle, cssom and getDefaultStyles   *)
(* produce it.                                                             *)

\* decimal numerals with the number each denotes
Numerals ==
    { <<"0", Whole(0)>>, <<"2", Whole(2)>>, <<"10", Whole(10)>>,
      <<"50", Whole(50)>>, <<"100", Whole(100)>>, <<"1.5", <<3, 2>>>>,
      <<"0.67", <<67, 100>>>>, <<"18.72", <<468, 25>>>>, <<".5", <<1, 2>>>>,
      <<"-5.5", <<-11, 2>>>>, <<"+4", Whole(4)>> }

Units == {"px", "em", "rem", "%", ""}

SpacingTokens == {"10px", "0", "2em", "-5.5px", "auto"}

Separators == <<" ", "  ", "\t">>

\* the tokens joined by white space
RECURSIVE joinTokens(_, _)
joinTokens(tokens, i) ==
    IF i = Len(tokens) THEN tokens[i]
    ELSE tokens[i] \o Separators[(i % 3) + 1] \o joinTokens(tokens, i + 1)

TokenLists == SeqsUpTo(SpacingTokens, MaxTokens) \ {<<>>}

Values ==
    { n[1] \o u : n \in Numerals, u \in Units }
        \cup { joinTokens(ts, 1) : ts \in TokenLists }
        \cup { Undefined, "", "auto", "normal", "px", "em", "rem", "autopx",
               "1px 2px 3px 4px", "10px 20px" }

-----------------------------------------------------------------------------
(* documentToDesignTree(document, viewport).  The loop of processChildren  *)
(* over the children of <body> runs one iteration per step; the conversion *)
(* of each child (and everything below it) is elementToDesignNode.         *)

Idle == <<>>

\* no function call made, no engine constructed
IdleCalls == args = Idle /\ returned = Idle
IdleEngine ==
    /\ engineInstance = 0
    /\ engines = <<>>
    /\ browsers = <<>>
    /\ pages = <<>>
    /\ calls = Idle

Init ==
    /\ document \in Documents
    /\ viewport = DEFAULT_VIEWPORT
    /\ pc = "start"
    /\ node = NoElement
    /\ children = <<>>
    /\ currentY = Zero
    /\ index = 0
    /\ tree = NoElement
    /\ cssRules = <<>>
    /\ element = NoElement
    /\ computed = EmptyObject
    /\ value = ""
    /\ parsed = Idle
    /\ IdleCalls /\ IdleEngine

\* return result
returnTree(result) ==
    /\ tree' = result
    /\ pc' = "done"
    /\ UNCHANGED <<children, currentY, index>>

\* processChildren(body, ...) starts: children = [], currentY = parentLayout.y
enterChildren(root) ==
    /\ pc' = "children"
    /\ children' = <<>>
    /\ currentY' = root.layout.y
    /\ index' = 1
    /\ UNCHANGED tree

startRoot(root) ==
    /\ node' = root
    /\ IF IsNull(root) THEN returnTree(root) ELSE enterChildren(root)

startBody(rules) ==
    /\ cssRules' = rules
    /\ startRoot(designNode(document.body, rules, viewport, Zero, Zero))

\* documentToDesignTree up to the loop of processChildren for <body>
DocumentToDesignTree ==
    /\ pc = "start"
    /\ IF IsNull(document.body)
       THEN /\ returnTree(createEmptyDesignTree(viewport))
            /\ UNCHANGED <<cssRules, node>>
       ELSE startBody(collectStylesheets(document))
    /\ UNCHANGED <<document, viewport, element, computed, value, parsed>>
    /\ UNCHANGED <<callVars, engineVars>>

\* the list taken over, the cursor left where it was
stepChildrenKeepCursor(acc) ==
    /\ children' = acc.children
    /\ currentY' = currentY

stepChildren(acc) ==
    /\ children' = acc.children
    /\ currentY' = acc.currentY

\* one iteration of processChildren(body, cssRules, viewport, layout)
ProcessChild ==
    /\ pc = "children"
    /\ index <= Len(ChildElements(document.body))
    /\ stepChildren(processChild([children |-> children, currentY |-> currentY],
                                 ChildElements(document.body)[index],
                                 cssRules, viewport, node.layout))
    /\ index' = index + 1
    /\ UNCHANGED <<document, viewport, pc, node, tree, cssRules,
                   element, computed, value, parsed>>
    /\ UNCHANGED <<callVars, engineVars>>

\* the loop is over: attach the children and return the tree
ReturnTree ==
    /\ pc = "children"
    /\ index > Len(ChildElements(document.body))
    /\ tree' = attachChildren(node, children)
    /\ pc' = "done"
    /\ UNCHANGED <<document, viewport, node, children, currentY, index,
                   cssRules, element, computed, value, parsed>>
    /\ UNCHANGED <<callVars, engineVars>>

Next == DocumentToDesignTree \/ ProcessChild \/ ReturnTree

Spec == Init /\ [][Next]_vars

-----------------------------------------------------------------------------
(* getComputedStyles(element, cssRules) *)

InitStyle ==
    /\ element \in StyleElements
    /\ cssRules \in RuleLists
    /\ computed = EmptyObject
    /\ pc = "start"
    /\ document = [body |-> NoElement, styleSheets |-> <<>>]
    /\ viewport = DEFAULT_VIEWPORT
    /\ node = NoElement
    /\ children = <<>>
    /\ currentY = Zero
    /\ index = 0
    /\ tree = NoElement
    /\ value = ""
    /\ parsed = Idle
    /\ IdleCalls /\ IdleEngine

GetComputedStyles ==
    /\ pc = "start"
    /\ computed' = getComputedStyles(element, cssRules)
    /\ pc' = "done"
    /\ UNCHANGED <<document, viewport, node, children, currentY, index, tree,
                   element, cssRules, value, parsed>>
    /\ UNCHANGED <<callVars, engineVars>>

NextStyle == GetComputedStyles

SpecStyle == InitStyle /\ [][NextStyle]_vars

-----------------------------------------------------------------------------
(* parsePixelValue(value), parseSpacing(value) *)

InitValue ==
    /\ value \in Values
    /\ parsed = Idle
    /\ IdleCalls /\ IdleEngine
    /\ pc = "start"
    /\ document = [body |-> NoElement, styleSheets |-> <<>>]
    /\ viewport = DEFAULT_VIEWPORT
    /\ node = NoElement
    /\ children = <<>>
    /\ currentY = Zero
    /\ index = 0
    /\ tree = NoElement
    /\ element = NoElement
    /\ cssRules = <<>>
    /\ computed = EmptyObject
    /\ IdleCalls /\ IdleEngine

ParsePixelValue ==
    /\ pc = "start"
    /\ parsed' = parsePixelValue(value)
    /\ pc' = "parsePixelValue"
    /\ UNCHANGED <<document, viewport, node, children, currentY, index, tree,
                   element, cssRules, computed, value>>
    /\ UNCHANGED <<callVars, engineVars>>

ParseSpacing ==
    /\ pc = "start"
    /\ parsed' = parseSpacing(value)
    /\ pc' = "parseSpacing"
    /\ UNCHANGED <<document, viewport, node, children, currentY, index, tree,
                   element, cssRules, computed, value>>
    /\ UNCHANGED <<callVars, engineVars>>

NextValue == ParsePixelValue \/ ParseSpacing

SpecValue == InitValue /\ [][NextValue]_vars

-----------------------------------------------------------------------------
(* Properties of the tree produced by documentToDesignTree *)

Kids(n) == IF "children" \in DOMAIN n THEN n.children ELSE <<>>

\* the nodes of the tree under n, n included
RECURSIVE NodesOf(_)
NodesOf(n) ==
    IF IsNull(n) THEN {}
    ELSE {n} \cup UNION {NodesOf(Kids(n)[i]) : i \in DOMAIN Kids(n)}

NodeIds(n) == {Get(m, "id") : m \in NodesOf(n)}

\* the elements under el, el included
RECURSIVE ElementsOf(_)
ElementsOf(el) ==
    IF IsNull(el) THEN {}
    ELSE {el} \cup UNION {ElementsOf(ChildElements(el)[i]) :
                             i \in DOMAIN ChildElements(el)}

\* el yields no node
YieldsNoNode(el) ==
    IsNull(elementToDesignNode(el, cssRules, viewport, Zero, Zero))

\* el without its child elements whose id is in ids
WithoutChildren(el, ids) ==
    [el EXCEPT !.childNodes =
        SelectSeq(el.childNodes, LAMBDA c : c.nodeType # 1 \/ c.id \notin ids)]

\* el has a non-visual tag or a resolved style of display none or
\* visibility hidden
Excluded(el) ==
    \/ el.tagName \in {"SCRIPT", "STYLE", "NOSCRIPT", "META", "LINK", "HEAD"}
    \/ Get(getComputedStyles(el, cssRules), "display") = "none"
    \/ Get(getComputedStyles(el, cssRules), "visibility") = "hidden"

\* el with every excluded element under it removed
RECURSIVE Pruned(_)
Pruned(el) ==
    LET kept == SelectSeq(el.childNodes,
                          LAMBDA c : c.nodeType # 1 \/ ~Excluded(c))
    IN [el EXCEPT !.childNodes =
           [i \in 1..Len(kept) |->
               IF kept[i].nodeType = 1 THEN Pruned(kept[i]) ELSE kept[i]]]

\* the layout of every node of the tree under n, by the id of its element
LayoutsOf(n) == {<<m.id, m.layout>> : m \in NodesOf(n)}

HasBody == ~IsNull(document.body)

\* C1: in the tree returned, every node that follows a sibling starts at or
\* below the bottom edge of that sibling: B.y >= A.y + A.h.
SiblingsNeverOverlap ==
    pc = "done" =>
        \A n \in NodesOf(tree) :
            \A i \in 1..(Len(Kids(n)) - 1) :
                Geq(Kids(n)[i + 1].layout.y,
                    Add(Kids(n)[i].layout.y, Kids(n)[i].layout.h))

\* C2: for every element of the document whose resolved style has display
\* none or visibility hidden, elementToDesignNode returns null and the tree
\* returned holds no node for the element or for anything below it.
HiddenSubtreeAbsent ==
    (pc = "done" /\ HasBody) =>
        \A el \in ElementsOf(document.body) :
            LET resolved == getComputedStyles(el, cssRules)
            IN (Get(resolved, "display") = "none"
                    \/ Get(resolved, "visibility") = "hidden")
               => /\ YieldsNoNode(el)
                  /\ \A d \in ElementsOf(el) : d.id \notin NodeIds(tree)

HiddenSubtreeCase ==
    /\ pc = "done"
    /\ HasBody
    /\ Len(Kids(tree)) > 0
    /\ \E el \in ElementsOf(document.body) :
          /\ Get(getComputedStyles(el, cssRules), "visibility") = "hidden"
          /\ Len(ChildElements(el)) > 0
    /\ \E el \in ElementsOf(document.body) :
          /\ el.style = "height: 40px"
          /\ Get(getComputedStyles(el, cssRules), "display") = "none"

\* C3: for every element of the document whose tag is script, style,
\* noscript, meta, link or head, elementToDesignNode returns null and the
\* tree returned holds no node named after such a tag, nor a node for the
\* element or anything below it.
NonVisualTagsAbsent ==
    (pc = "done" /\ HasBody) =>
        /\ \A el \in ElementsOf(document.body) :
              el.tagName \in {"SCRIPT", "STYLE", "NOSCRIPT", "META", "LINK",
                              "HEAD"}
              => /\ YieldsNoNode(el)
                 /\ \A d \in ElementsOf(el) : d.id \notin NodeIds(tree)
        /\ \A n \in NodesOf(tree) :
              n.name \notin {"script", "style", "noscript", "meta", "link",
                             "head"}

NonVisualTagCase ==
    /\ pc = "done"
    /\ HasBody
    /\ Len(Kids(tree)) = 2
    /\ \E i \in DOMAIN ChildElements(document.body) :
          LET el == ChildElements(document.body)[i]
          IN /\ el.tagName = "SCRIPT"
             /\ el.style = "display:block"
             /\ Len(ChildElements(el)) > 0
             /\ i = 2

\* the child element of el the node n was made from
ElementOf(n, el) ==
    CHOOSE c \in {ChildElements(el)[i] : i \in DOMAIN ChildElements(el)} :
        c.id = n.id

\* under n, made from el, and under every node below it, the children are
\* those processChildren gives with any one excluded child out of the list
RECURSIVE SiblingsIgnoreExcluded(_, _)
SiblingsIgnoreExcluded(n, el) ==
    /\ \A i \in DOMAIN ChildElements(el) :
          Excluded(ChildElements(el)[i])
          => Kids(n) = processChildren(
                           WithoutChildren(el, {ChildElements(el)[i].id}),
                           cssRules, viewport, n.layout)
    /\ \A i \in DOMAIN Kids(n) :
          SiblingsIgnoreExcluded(Kids(n)[i], ElementOf(Kids(n)[i], el))

\* C4: a child that yields no node (non-visual tag, display none, visibility
\* hidden) leaves the cursor alone.  While the loop over the children of
\* <body> runs, the cursor is the bottom edge of the last node collected, or
\* the top of <body> when none is; and under every node of the tree
\* returned, the children and their layouts are those processChildren gives
\* for the element with the excluded child taken out of its child list.
NullChildLeavesCursor ==
    /\ pc = "children" =>
          currentY = IF Len(children) = 0 THEN node.layout.y
                     ELSE Add(children[Len(children)].layout.y,
                              children[Len(children)].layout.h)
    /\ (pc = "done" /\ HasBody /\ ~IsNull(tree)) =>
          SiblingsIgnoreExcluded(tree, document.body)

NullChildCase ==
    /\ pc = "done"
    /\ HasBody
    /\ Len(ChildElements(document.body)) = 3
    /\ Excluded(ChildElements(document.body)[2])
    /\ Len(Kids(tree)) = 2
    /\ \E n \in NodesOf(tree) :
          /\ n # tree
          /\ Len(Kids(n)) = 2
          /\ "padding" \in DOMAIN n.style

\* C5: the layout of every node of the tree returned is the layout the node
\* has in the tree of the same document with every element that yields no
\* node removed.
ExcludedTakeNoSpace ==
    (pc = "done" /\ HasBody /\ ~Excluded(document.body)) =>
        LayoutsOf(tree) =
            LayoutsOf(elementToDesignNode(Pruned(document.body), cssRules,
                                          viewport, Zero, Zero))

\* C6: documentToDesignTree returns a node, and for a document without a
\* body or with a body resolved to display none or visibility hidden the
\* node is a frame named body that covers the viewport and has a white
\* background.
MissingInputGivesEmptyFrame ==
    pc = "done" =>
        /\ ~IsNull(tree)
        /\ (\/ ~HasBody
            \/ Get(getComputedStyles(document.body, cssRules), "display") = "none"
            \/ Get(getComputedStyles(document.body, cssRules), "visibility")
                   = "hidden")
           => /\ tree.type = "frame"
              /\ tree.name = "body"
              /\ tree.layout = [x |-> Zero, y |-> Zero, w |-> viewport.width,
                                h |-> viewport.height]
              /\ tree.style.background = "rgb(255, 255, 255)"

-----------------------------------------------------------------------------
(* Properties of getComputedStyles *)

\* element.matches(selector) returns true
SelectorMatches(el, rule) ==
    /\ "selectorText" \in DOMAIN rule
    /\ el.hasMatches
    /\ ElementMatches(el, rule.selectorText) = "true"

\* the declarations of the rule that give the property a value
Declaring(rule, key) ==
    {d \in DOMAIN rule.style :
        camelCase(rule.style[d][1]) = key /\ rule.style[d][2] # ""}

\* the rules of the list that match el and declare the property
MatchingRules(el, rules, key) ==
    {i \in DOMAIN rules :
        SelectorMatches(el, rules[i]) /\ Declaring(rules[i], key) # {}}

Last(S) == CHOOSE i \in S : \A j \in S : j <= i

TagDefaults(el) ==
    getDefaultStyles(IF el.tagName = Undefined THEN Undefined
                     ELSE toLowerCase(el.tagName))

\* the value the three layers give the property
Layered(el, rules, key) ==
    IF key \in DOMAIN parseInlineStyle(el.style)
    THEN parseInlineStyle(el.style)[key]
    ELSE IF MatchingRules(el, rules, key) # {}
    THEN LET rule == rules[Last(MatchingRules(el, rules, key))]
         IN rule.style[Last(Declaring(rule, key))][2]
    ELSE TagDefaults(el)[key]

\* the properties some layer declares
LayeredKeys(el, rules) ==
    DOMAIN TagDefaults(el) \cup DOMAIN parseInlineStyle(el.style)
        \cup UNION {{camelCase(rules[i].style[d][1]) :
                        d \in {d \in DOMAIN rules[i].style :
                                  rules[i].style[d][2] # ""}} :
                     i \in {i \in DOMAIN rules : SelectorMatches(el, rules[i])}}

\* C7: every property of the style getComputedStyles returns has the value
\* of the inline style when the inline style declares it, else the value of
\* the last rule of the list that matches the element and declares it, else
\* the default of the tag; and no other property is in the style.
StyleLayering ==
    pc = "done" =>
        /\ DOMAIN computed = LayeredKeys(element, cssRules)
        /\ \A key \in DOMAIN computed :
              computed[key] = Layered(element, cssRules, key)

StyleLayeringCase ==
    /\ pc = "done"
    /\ Get(parseInlineStyle(element.style), "color") = "red"
    /\ Cardinality(MatchingRules(element, cssRules, "color")) >= 2
    /\ Get(computed, "color") = "red"
    /\ Get(computed, "backgroundColor") = "yellow"
    /\ Get(computed, "display") = "none"
    /\ Get(computed, "margin") = "1em 0"

\* matching the rule's selector fails: the element has no matches, or matches
\* throws for the selector
MatchingFails(el, rule) ==
    /\ "selectorText" \in DOMAIN rule
    /\ \/ ~el.hasMatches
       \/ ElementMatches(el, rule.selectorText) = "throw"

\* C8: getComputedStyles returns a style with every default property; the
\* style is the one it returns for the rule list with the rules taken out
\* for which matching fails; and for an element without matches it is the
\* defaults of the tag overlaid with the inline style.
FailedMatchSkipsRule ==
    pc = "done" =>
        /\ DOMAIN GenericDefaults \subseteq DOMAIN computed
        /\ computed = getComputedStyles(
                          element,
                          SelectSeq(cssRules,
                                    LAMBDA r : ~MatchingFails(element, r)))
        /\ ~element.hasMatches
           => computed = Assign(TagDefaults(element),
                                parseInlineStyle(element.style))

FailedMatchCase ==
    /\ pc = "done"
    /\ Len(cssRules) = 3
    /\ MatchingFails(element, cssRules[2])
    /\ element.hasMatches
    /\ SelectorMatches(element, cssRules[1])
    /\ SelectorMatches(element, cssRules[3])
    /\ cssRules[1] # cssRules[3]
    /\ parseInlineStyle(element.style) # EmptyObject
    /\ computed # Assign(TagDefaults(element), parseInlineStyle(element.style))

-----------------------------------------------------------------------------
(* Properties of the value parsers *)

\* the maximal runs of characters of s that are not white space
RECURSIVE TokensFrom(_, _, _)
TokensFrom(s, i, run) ==
    IF i > Len(s) THEN (IF run = "" THEN <<>> ELSE <<run>>)
    ELSE IF Char(s, i) \in WhiteSpace
    THEN (IF run = "" THEN <<>> ELSE <<run>>) \o TokensFrom(s, i + 1, "")
    ELSE TokensFrom(s, i + 1, run \o Char(s, i))

TokensOf(s) == TokensFrom(s, 1, "")

\* C9: for 'auto', the empty string and a missing value parseSpacing gives
\* the all-zero quad; for one to four tokens it gives top from the first,
\* right from the second (else the first), bottom from the third (else the
\* first), left from the fourth (else the second, else the first), each
\* through parsePixelValue.
SpacingShorthand ==
    pc = "parseSpacing" =>
        IF value \in {Undefined, "", "auto"} THEN parsed = ZeroQuad
        ELSE LET tokens == TokensOf(value)
                 n == Len(tokens)
             IN n \in 1..4
                => /\ parsed.top = parsePixelValue(tokens[1])
                   /\ parsed.right =
                          parsePixelValue(tokens[IF n >= 2 THEN 2 ELSE 1])
                   /\ parsed.bottom =
                          parsePixelValue(tokens[IF n >= 3 THEN 3 ELSE 1])
                   /\ parsed.left =
                          parsePixelValue(tokens[IF n = 4 THEN 4
                                                 ELSE IF n >= 2 THEN 2 ELSE 1])

SpacingShorthandCase ==
    /\ pc = "parseSpacing"
    /\ TokensOf(value) = <<"10px", "2em", "-5.5px">>
    /\ parsed = Quad(Whole(10), Whole(32), <<-11, 2>>, Whole(32))

\* C10: for a numeral N, parsePixelValue gives N for Npx, N times 16 for Nem
\* and Nrem, 0 for N%, N for N alone; and 0 for the empty string and for a
\* missing value.
PixelValueOfUnits ==
    pc = "parsePixelValue" =>
        /\ value \in {Undefined, ""} => parsed = Zero
        /\ \A n \in Numerals :
              /\ value = n[1] \o "px" => parsed = n[2]
              /\ value = n[1] \o "em" => parsed = Mul(n[2], Whole(16))
              /\ value = n[1] \o "rem" => parsed = Mul(n[2], Whole(16))
              /\ value = n[1] \o "%" => parsed = Zero
              /\ value = n[1] => parsed = n[2]

PixelValueOfUnitsCase ==
    /\ pc = "parsePixelValue"
    /\ value = "0.67rem"
    /\ parsed = <<268, 25>>

-----------------------------------------------------------------------------
(* Further properties of the value parsers *)

\* C11: parsePixelValue returns a finite number for every value, and every
\* field of the quad parseSpacing builds from it is a finite number.
PixelValueAlwaysFinite ==
    /\ pc = "parsePixelValue" => IsFinite(parsed)
    /\ pc = "parseSpacing" =>
          /\ IsFinite(parsed.top)
          /\ IsFinite(parsed.right)
          /\ IsFinite(parsed.bottom)
          /\ IsFinite(parsed.left)

-----------------------------------------------------------------------------
(* documentToDesignTree on documents whose elements declare widths,         *)
(* heights, spacing, borders and backgrounds                                *)

\* child elements of <body> in the styled documents
MaxStyled == 2

StyledPalette ==
    { DivEl("width:50%;height:0", <<>>),
      Element("SPAN", "", <<>>, Null, <<Text("inline")>>),
      DivEl("height:2em;margin:0.67em 5px;border:1px solid red",
            <<DivEl("width:25%;height:1.5", <<>>)>>),
      Element("P", "", <<>>, "width:5px", <<Text("narrow text")>>),
      DivEl("margin:px;padding:px", <<>>),
      Element("DIV", "", <<"hl">>, "background:transparent", <<>>),
      DivEl("border-radius:4px;background:red;background-color:blue", <<>>),
      DivEl("border:2px dashed;border-radius:0;padding:5px;color:inherit;text-align:center;font-weight:bold;display:flex",
            <<Element("SPAN", "", <<>>, "color:green", <<Text("x")>>)>>),
      DivEl("height:40px;padding:10px 20px",
            <<DivEl(Null, <<>>),
              DivEl("width:10px;color:red;font-family:serif;text-align:left;display:block;font-weight:normal",
                    <<>>)>>) }

StyledSheets ==
    << [cssRules |-> << StyleRule(".hl", <<<<"background-color", "yellow">>>>) >>] >>

StyledDocuments ==
    { [body |-> Body(style, kids), styleSheets |-> StyledSheets] :
        style \in {Null, "padding:20px;margin:0"},
        kids \in SeqsUpTo(StyledPalette, MaxStyled) }

InitStyled ==
    /\ document \in StyledDocuments
    /\ viewport = DEFAULT_VIEWPORT
    /\ pc = "start"
    /\ node = NoElement
    /\ children = <<>>
    /\ currentY = Zero
    /\ index = 0
    /\ tree = NoElement
    /\ cssRules = <<>>
    /\ element = NoElement
    /\ computed = EmptyObject
    /\ value = ""
    /\ parsed = Idle
    /\ IdleCalls /\ IdleEngine

SpecStyled == InitStyled /\ [][Next]_vars

-----------------------------------------------------------------------------
(* Properties of the layout boxes and styles of the tree *)

\* the nodes of the tree under n, made from el, each with its element
RECURSIVE NodePairs(_, _)
NodePairs(n, el) ==
    {<<n, el>>}
        \cup UNION {NodePairs(Kids(n)[i], ElementOf(Kids(n)[i], el)) :
                       i \in DOMAIN Kids(n)}

\* the nodes of the tree returned, each with its element
TreePairs ==
    IF pc = "done" /\ HasBody /\ ~IsNull(tree)
    THEN NodePairs(tree, document.body)
    ELSE {}

Resolved(el) == getComputedStyles(el, cssRules)

\* the widths under n, made from el, are resolved against the content width
\* of the parent
RECURSIVE WidthsResolved(_, _, _)
WidthsResolved(n, el, parentContentWidth) ==
    LET width == Get(Resolved(el), "width")
        margin == parseSpacing(Get(Resolved(el), "margin"))
        padding == parseSpacing(Get(Resolved(el), "padding"))
    IN /\ (width \in {Undefined, "auto"}
              /\ Get(Resolved(el), "display") = "block")
          => n.layout.w = Round(Sub(Sub(parentContentWidth, margin.left),
                                    margin.right))
       /\ (width # Undefined /\ endsWith(width, "%"))
          => n.layout.w = Round(Mul(Div(parseFloat(width), Whole(100)),
                                    parentContentWidth))
       /\ \A i \in DOMAIN Kids(n) :
             WidthsResolved(Kids(n)[i], ElementOf(Kids(n)[i], el),
                            Sub(Sub(n.layout.w, padding.left), padding.right))

\* C12: in the tree returned, a block-level node of width auto is as wide as
\* the content width of its parent less its left and right margins, and a
\* node of width P% is P/100 of the content width of its parent; for <body>
\* the content width is the width of the viewport.
WidthsAgainstParent ==
    (pc = "done" /\ HasBody /\ ~IsNull(tree)) =>
        WidthsResolved(tree, document.body, viewport.width)

\* C13: in the tree returned, every node of an element resolved to display
\* inline with width auto or absent is 100 wide.
InlineWidthIsFallback ==
    \A p \in TreePairs :
        (Get(Resolved(p[2]), "display") = "inline"
            /\ Get(Resolved(p[2]), "width") \in {Undefined, "auto"})
        => p[1].layout.w = Whole(100)

\* the height is a number with the unit px, em or rem, or without unit
ExplicitHeight(height) ==
    /\ height \notin {Undefined, "auto"}
    /\ ~endsWith(height, "%")
    /\ IsFinite(parseFloat(height))

\* C14: in the tree returned, every node of an element whose resolved height
\* is an explicit value, 0 included, is round(parsePixelValue(height)) high.
ExplicitHeightIsKept ==
    \A p \in TreePairs :
        ExplicitHeight(Get(Resolved(p[2]), "height"))
        => p[1].layout.h =
               Round(parsePixelValue(Get(Resolved(p[2]), "height")))

\* the positions under n, made from el and placed at the offsets, are the
\* offsets plus the left and top margins, rounded
RECURSIVE PositionsFromOffsets(_, _, _, _)
PositionsFromOffsets(n, el, offsetX, offsetY) ==
    LET margin == parseSpacing(Get(Resolved(el), "margin"))
    IN /\ n.layout.x = Round(Add(offsetX, margin.left))
       /\ n.layout.y = Round(Add(offsetY, margin.top))
       /\ \A i \in DOMAIN Kids(n) :
             PositionsFromOffsets(
                 Kids(n)[i], ElementOf(Kids(n)[i], el), n.layout.x,
                 IF i = 1 THEN n.layout.y
                 ELSE Add(Kids(n)[i - 1].layout.y, Kids(n)[i - 1].layout.h))

\* C15: in the tree returned, <body> is at x = round(0 + margin.left),
\* y = round(0 + margin.top), and every other node is at
\* x = round(parent.x + margin.left), y = round(cursor + margin.top), the
\* cursor being the top of the parent for a first child and the bottom edge
\* of the previous sibling otherwise; the padding and border of the parent
\* do not enter.
PositionsAreOffsetPlusMargin ==
    (pc = "done" /\ HasBody /\ ~IsNull(tree)) =>
        PositionsFromOffsets(tree, document.body, Zero, Zero)

PositionsCase ==
    /\ pc = "done"
    /\ HasBody
    /\ tree.layout.x = Whole(8)
    /\ \E p \in TreePairs :
          /\ p[1] # tree
          /\ "padding" \in DOMAIN p[1].style
          /\ Len(Kids(p[1])) = 2
          /\ Kids(p[1])[1].layout.x = Whole(8)
          /\ Kids(p[1])[2].layout.y = Add(p[1].layout.y, Whole(22))
    /\ \E p \in TreePairs :
          /\ "border" \in DOMAIN p[1].style
          /\ p[1].layout = [x |-> Whole(13), y |-> Whole(19),
                            w |-> Whole(1190), h |-> Whole(32)]
          /\ Len(Kids(p[1])) = 1
          /\ Kids(p[1])[1].layout.x = Whole(13)

\* C16: in the tree returned, the x, y, w and h of every node are finite
\* integers.
LayoutsAreFiniteIntegers ==
    pc = "done" =>
        \A n \in NodesOf(tree) :
            /\ IsInteger(n.layout.x)
            /\ IsInteger(n.layout.y)
            /\ IsInteger(n.layout.w)
            /\ IsInteger(n.layout.h)

\* C17: in the tree returned, a node whose element resolves background to a
\* value other than transparent has that value as style.background, and a
\* node whose element declares background:transparent inline has no
\* style.background, whatever the rules declare.
BackgroundPrefersExplicit ==
    \A p \in TreePairs :
        /\ Get(Resolved(p[2]), "background") \notin {Undefined, "transparent"}
           => Get(p[1].style, "background") = Get(Resolved(p[2]), "background")
        /\ Get(parseInlineStyle(p[2].style), "background") = "transparent"
           => "background" \notin DOMAIN p[1].style

\* the key is in the style exactly when the effective style has a value for
\* it other than the default, and then with that value
OmitsDefault(style, effective, key, default) ==
    /\ key \in DOMAIN style <=> Get(effective, key) \notin {Undefined, default}
    /\ key \in DOMAIN style => style[key] = effective[key]

\* the key is in the style exactly when a side of the quad is not zero
OmitsZeroQuad(style, key, quad) ==
    key \in DOMAIN style
        <=> (quad.top # Zero \/ quad.right # Zero \/ quad.bottom # Zero
                \/ quad.left # Zero)

\* C18: in the tree returned, the style of every node has color, fontFamily,
\* fontWeight, textAlign and display exactly when the effective style has a
\* value other than inherit, inherit, normal, left and block for them, with
\* that value, and has padding and margin exactly when a parsed side is not
\* zero.
StyleOmitsDefaults ==
    \A p \in TreePairs :
        /\ OmitsDefault(p[1].style, Resolved(p[2]), "color", "inherit")
        /\ OmitsDefault(p[1].style, Resolved(p[2]), "fontFamily", "inherit")
        /\ OmitsDefault(p[1].style, Resolved(p[2]), "fontWeight", "normal")
        /\ OmitsDefault(p[1].style, Resolved(p[2]), "textAlign", "left")
        /\ OmitsDefault(p[1].style, Resolved(p[2]), "display", "block")
        /\ OmitsZeroQuad(p[1].style, "padding",
                         parseSpacing(Get(Resolved(p[2]), "padding")))
        /\ OmitsZeroQuad(p[1].style, "margin",
                         parseSpacing(Get(Resolved(p[2]), "margin")))

\* C19: in the tree returned, the style of a node has border exactly when
\* the parsed border is wider than 0 or the effective style has a
\* border-radius; with a width above 0 it is the parsed border with its
\* width, style, color and radius, the radius being the border-radius when
\* one is present; otherwise it holds the radius alone.
BorderKeyPresence ==
    \A p \in TreePairs :
        LET border == parseBorder(Get(Resolved(p[2]), "border"))
            radius == Get(Resolved(p[2]), "borderRadius")
            style == p[1].style
        IN /\ "border" \in DOMAIN style
                 <=> (Gt(border.width, Zero) \/ radius \notin {Undefined, ""})
           /\ Gt(border.width, Zero)
              => /\ DOMAIN style.border = {"width", "style", "color", "radius"}
                 /\ style.border.width = border.width
                 /\ style.border.style = border.style
                 /\ style.border.color = border.color
                 /\ style.border.radius =
                        IF radius \in {Undefined, ""} THEN Zero
                        ELSE parsePixelValue(radius)
           /\ (~Gt(border.width, Zero) /\ radius \notin {Undefined, ""})
              => /\ DOMAIN style.border = {"radius"}
                 /\ style.border.radius = parsePixelValue(radius)

BorderKeyCase ==
    /\ pc = "done"
    /\ \E p \in TreePairs :
          /\ Get(Resolved(p[2]), "borderRadius") = "4px"
          /\ Get(p[1].style, "border") = ("radius" :> Whole(4))
    /\ \E p \in TreePairs :
          /\ Get(Resolved(p[2]), "borderRadius") = "0"
          /\ "border" \in DOMAIN p[1].style
          /\ p[1].style.border.width = Whole(2)
          /\ p[1].style.border.style = "dashed"
    /\ \E p \in TreePairs : "border" \notin DOMAIN p[1].style

\* C20: in the tree returned, a node that has the key children has at least
\* one child.
NoEmptyChildren ==
    pc = "done" =>
        \A n \in NodesOf(tree) :
            "children" \in DOMAIN n => Len(n.children) > 0


-----------------------------------------------------------------------------
(* toDesignTree.js: extractColorPalette(tree) *)

\* the state the layout core is left in while another function is under call
IdleCore ==
    /\ document = [body |-> NoElement, styleSheets |-> <<>>]
    /\ viewport = DEFAULT_VIEWPORT
    /\ node = NoElement
    /\ children = <<>>
    /\ currentY = Zero
    /\ index = 0
    /\ tree = NoElement
    /\ element = NoElement
    /\ cssRules = <<>>
    /\ computed = EmptyObject
    /\ value = ""
    /\ parsed = Idle

\* colors.add(c) without the look-up of a Set: every insertion is kept
colorsPush(colors, c) == Append(colors, c)

\* colors.add(c): a Set holds a value once, at the place of its first insertion
colorsAdd(colors, c) ==
    IF \E i \in 1..Len(colors) : colors[i] = c THEN colors
    ELSE Append(colors, c)

\* if (v) colors.add(v)
addIfTruthy(colors, v) == IF Falsy(v) THEN colors ELSE colorsAdd(colors, v)

\* node.style.border?.color
borderColor(style) ==
    IF "border" \in DOMAIN style THEN Get(style.border, "color") ELSE Undefined

\* the three tests of the `if (node.style)` block, in their order
addStyleColors(colors, style) ==
    addIfTruthy(addIfTruthy(addIfTruthy(colors, Get(style, "background")),
                            Get(style, "color")),
                borderColor(style))

\* if (node.style) { ... }
addNodeColors(colors, n) ==
    IF "style" \in DOMAIN n THEN addStyleColors(colors, n.style) ELSE colors

\* if (node.children) for (const child of node.children) traverse(child)
RECURSIVE traverse(_, _)
RECURSIVE traverseChildren(_, _)
traverse(colors, n) ==
    traverseChildren(addNodeColors(colors, n),
                     IF "children" \in DOMAIN n THEN n.children ELSE <<>>)

traverseChildren(colors, kids) ==
    IF Len(kids) = 0 THEN colors
    ELSE traverseChildren(traverse(colors, Head(kids)), Tail(kids))

\* traverse(tree); return Array.from(colors)
extractColorPalette(t) == traverse(<<>>, t)

MaxPaletteKids == 2

\* style objects as buildStyleObject leaves them: each key is optional, the
\* border may carry a radius only
PaletteStyles ==
    { EmptyObject,
      [background |-> "#fff"],
      [background |-> "#fff", color |-> "#000"],
      [color |-> "#fff"],
      [background |-> "#000", border |-> [width |-> Whole(1), color |-> "#f00"]],
      [color |-> "#f00", border |-> [radius |-> Whole(4)]],
      [background |-> "", color |-> "#00f"] }

paletteNode(style, kids) ==
    IF Len(kids) = 0 THEN [type |-> "frame", name |-> "div", style |-> style]
    ELSE [type |-> "frame", name |-> "div", style |-> style, children |-> kids]

PaletteLeaves ==
    { paletteNode(s, <<>>) : s \in PaletteStyles \ {EmptyObject} }
        \cup {[type |-> "frame", name |-> "div"]}

PaletteKids ==
    PaletteLeaves \cup
    { paletteNode([color |-> "#0f0"], <<k>>) :
        k \in {paletteNode([background |-> "#f00"], <<>>),
               paletteNode([background |-> "#0f0", color |-> "#fff"], <<>>)} }

PaletteTrees ==
    { paletteNode(s, kids) :
        s \in {EmptyObject, [background |-> "#fff", color |-> "#000"]},
        kids \in SeqsUpTo(PaletteKids, MaxPaletteKids) }

InitPalette ==
    /\ args \in PaletteTrees
    /\ returned = <<>>
    /\ pc = "start"
    /\ IdleCore /\ IdleEngine

\* const palette = extractColorPalette(tree), called a first and a second time
ExtractColorPalette ==
    /\ Len(returned) < 2
    /\ returned' = Append(returned, extractColorPalette(args))
    /\ pc' = "extractColorPalette"
    /\ UNCHANGED <<document, viewport, node, children, currentY, index, tree,
                   element, cssRules, computed, value, parsed, args>>
    /\ UNCHANGED engineVars

NextPalette == ExtractColorPalette

SpecPalette == InitPalette /\ [][NextPalette]_vars

\* the nodes of a tree in pre-order
RECURSIVE PreOrder(_)
RECURSIVE PreOrderAll(_)
PreOrder(n) == <<n>> \o PreOrderAll(Kids(n))
PreOrderAll(kids) ==
    IF kids = <<>> THEN <<>> ELSE PreOrder(Head(kids)) \o PreOrderAll(Tail(kids))

\* the color strings of one node: background, color, border color
StyleColors(n) ==
    IF "style" \notin DOMAIN n THEN <<>>
    ELSE SelectSeq(<<Get(n.style, "background"), Get(n.style, "color"),
                     IF "border" \in DOMAIN n.style
                     THEN Get(n.style.border, "color") ELSE Undefined>>,
                   LAMBDA c : ~Falsy(c))

RECURSIVE Flatten(_)
Flatten(seqs) == IF seqs = <<>> THEN <<>> ELSE Head(seqs) \o Flatten(Tail(seqs))

ColorsInOrder(t) == Flatten([i \in 1..Len(PreOrder(t)) |-> StyleColors(PreOrder(t)[i])])

\* s is the elements of `all`, each once, ordered by first occurrence
IsFirstSeenOrder(s, all) ==
    /\ \A i \in 1..Len(all) : \E j \in 1..Len(s) : s[j] = all[i]
    /\ \A j \in 1..Len(s) : \E i \in 1..Len(all) : s[j] = all[i]
    /\ \A j, k \in 1..Len(s) : j < k =>
          /\ s[j] # s[k]
          /\ (CHOOSE i \in 1..Len(all) : all[i] = s[j] /\ \A h \in 1..(i - 1) : all[h] # s[j])
               < (CHOOSE i \in 1..Len(all) : all[i] = s[k] /\ \A h \in 1..(i - 1) : all[h] # s[k])

\* C21: every call of extractColorPalette returns the distinct color strings
\* of style.background, style.color and style.border.color (in that order
\* within a node, nodes in pre-order), each once at the place it is first
\* seen; the call leaves the tree as it was, and a second call returns what
\* the first returned.
PaletteIsFirstSeenColors ==
    [][ /\ args' = args
        /\ Len(returned') = Len(returned) + 1
        /\ IsFirstSeenOrder(returned'[Len(returned')], ColorsInOrder(args))
        /\ \A i \in 1..Len(returned) : returned'[i] = returned'[Len(returned')]
      ]_vars

\* two calls made on a tree where a nested node and a later sibling bring
\* new colors and a color is seen a second time
PaletteCase ==
    /\ pc = "extractColorPalette"
    /\ Len(returned) = 2
    /\ returned[1] = <<"#fff", "#000", "#0f0", "#f00">>
    /\ Len(ColorsInOrder(args)) > 4


-----------------------------------------------------------------------------
(* parseCSS.js: computeFlexLayout(container, children) *)

\* a || b on strings
strOr(a, b) == IF Falsy(a) THEN b ELSE a

isRow(flexDirection) == flexDirection = "row" \/ flexDirection = "row-reverse"
isReverse(flexDirection) ==
    flexDirection = "row-reverse" \/ flexDirection = "column-reverse"

\* isRow ? layout.w : layout.h
mainSize(layout, row) == IF row THEN layout.w ELSE layout.h

\* for (const child of children) totalChildSize += ...
RECURSIVE sumChildSizes(_, _, _)
sumChildSizes(kids, row, n) ==
    IF n = 0 THEN Zero
    ELSE Add(sumChildSizes(kids, row, n - 1), mainSize(kids[n].layout, row))

\* totalChildSize += gap * (children.length - 1)
totalChildSize(kids, row, gap) ==
    Add(sumChildSizes(kids, row, Len(kids)), Mul(gap, Whole(Len(kids) - 1)))

\* startPosition with 'center' taking all the free space
startPositionCenterAtEnd(justifyContent, availableSpace, n) ==
    CASE justifyContent = "center" -> availableSpace
      [] justifyContent = "flex-end" -> availableSpace
      [] justifyContent = "space-around" -> Div(availableSpace, Whole(n * 2))
      [] justifyContent = "space-evenly" -> Div(availableSpace, Whole(n + 1))
      [] OTHER -> Zero

\* let currentPos = 0; switch (justifyContent) { ... }
startPosition(justifyContent, availableSpace, n) ==
    CASE justifyContent = "center" -> Div(availableSpace, Whole(2))
      [] justifyContent = "flex-end" -> availableSpace
      [] justifyContent = "space-around" -> Div(availableSpace, Whole(n * 2))
      [] justifyContent = "space-evenly" -> Div(availableSpace, Whole(n + 1))
      [] OTHER -> Zero

\* const spaceBetween = justifyContent === 'space-between' && n > 1 ? ... : 0
spaceBetweenOf(justifyContent, availableSpace, n) ==
    IF justifyContent = "space-between" /\ n > 1
    THEN Div(availableSpace, Whole(n - 1)) ELSE Zero

\* computeCrossAxisPosition(child, containerLayout, alignItems, padding,
\*                          availableSize, isColumn)
crossPosition(containerStart, childSize, alignItems, availableSize) ==
    CASE alignItems = "center" ->
             Add(containerStart, Div(Sub(availableSize, childSize), Whole(2)))
      [] alignItems = "flex-end" ->
             Sub(Add(containerStart, availableSize), childSize)
      [] OTHER -> containerStart

computeCrossAxisPosition(child, containerLayout, alignItems, padding, availableSize, isColumn) ==
    crossPosition(IF isColumn THEN Add(containerLayout.x, padding.left)
                  ELSE Add(containerLayout.y, padding.top),
                  IF isColumn THEN child.layout.w ELSE child.layout.h,
                  alignItems, availableSize)

\* the body of `if (isRow)` and of its else: childLayout.x, childLayout.y
placedLayout(f, child, currentPos) ==
    IF f.row
    THEN [child.layout EXCEPT
            !.x = Add(Add(f.containerLayout.x, f.padding.left), currentPos),
            !.y = computeCrossAxisPosition(child, f.containerLayout,
                      f.alignItems, f.padding, f.availableHeight, FALSE)]
    ELSE [child.layout EXCEPT
            !.x = computeCrossAxisPosition(child, f.containerLayout,
                      f.alignItems, f.padding, f.availableWidth, TRUE),
            !.y = Add(Add(f.containerLayout.y, f.padding.top), currentPos)]

\* positionedChildren.push({ ...child, layout: childLayout })
placedChild(f, child, currentPos) ==
    [child EXCEPT !.layout = placedLayout(f, child, currentPos)]

\* currentPos += size + spaceBetween, the gap left out
advanceWithoutGap(currentPos, size, gap, spaceBetween) ==
    Add(currentPos, Add(size, spaceBetween))

\* currentPos += childLayout.w + gap + spaceBetween   (or childLayout.h)
advance(currentPos, size, gap, spaceBetween) ==
    Add(currentPos, Add(Add(size, gap), spaceBetween))

\* for (let i = 0; i < children.length; i++) { ... }
RECURSIVE positionChildren(_, _, _, _)
positionChildren(f, kids, i, currentPos) ==
    IF i > Len(kids) THEN <<>>
    ELSE <<placedChild(f, kids[i], currentPos)>> \o
         positionChildren(f, kids, i + 1,
             advance(currentPos, mainSize(kids[i].layout, f.row), f.gap,
                     f.spaceBetween))

reverse(s) == [i \in 1..Len(s) |-> s[Len(s) + 1 - i]]

\* the array returned as it was filled
keepOrder(cond, s) == s

\* if (isReverse) positionedChildren.reverse()
reverseIf(cond, s) == IF cond THEN reverse(s) ELSE s

flexWithSpace(f, justifyContent, flexDirection, availableSpace, kids) ==
    reverseIf(isReverse(flexDirection),
        positionChildren(
            [f EXCEPT !.spaceBetween =
                 spaceBetweenOf(justifyContent, availableSpace, Len(kids))],
            kids, 1, startPosition(justifyContent, availableSpace, Len(kids))))

\* const availableSpace = (isRow ? availableWidth : availableHeight) - total
flexWithAvailable(f, justifyContent, flexDirection, kids) ==
    flexWithSpace(f, justifyContent, flexDirection,
        Sub(IF f.row THEN f.availableWidth ELSE f.availableHeight,
            totalChildSize(kids, f.row, f.gap)),
        kids)

flexWithPadding(containerLayout, flexDirection, justifyContent, alignItems, gap, padding, kids) ==
    flexWithAvailable(
        [row |-> isRow(flexDirection), gap |-> gap, spaceBetween |-> Zero,
         padding |-> padding, containerLayout |-> containerLayout,
         alignItems |-> alignItems,
         availableWidth |->
             Sub(Sub(containerLayout.w, padding.left), padding.right),
         availableHeight |->
             Sub(Sub(containerLayout.h, padding.top), padding.bottom)],
        justifyContent, flexDirection, kids)

flexWithStyles(containerLayout, styles, kids) ==
    flexWithPadding(containerLayout,
        strOr(Get(styles, "flexDirection"), "row"),
        strOr(Get(styles, "justifyContent"), "flex-start"),
        strOr(Get(styles, "alignItems"), "stretch"),
        OrElse(parsePixelValue(Get(styles, "gap")), Zero),
        parseSpacing(Get(styles, "padding")),
        kids)

\* const styles = container.computedStyles || {}
computeFlexLayout(container, kids) ==
    flexWithStyles(container.layout,
        IF "computedStyles" \in DOMAIN container
        THEN container.computedStyles ELSE EmptyObject,
        kids)

MaxFlexChildren == 3

FlexChildren ==
    { [name |-> "a", layout |-> [x |-> Zero, y |-> Zero,
                                 w |-> Whole(40), h |-> Whole(20)]],
      [name |-> "b", layout |-> [x |-> Zero, y |-> Zero,
                                 w |-> Whole(60), h |-> Whole(30)]],
      [name |-> "c", layout |-> [x |-> Zero, y |-> Zero,
                                 w |-> Whole(50), h |-> Whole(70)]] }

\* optional style properties: Undefined stands for a property left out
flexStyles(direction, justify, align, gap, padding) ==
    LET put(o, k, v) == IF v = Undefined THEN o ELSE Set(o, k, v)
    IN  put(put(put(put(put(EmptyObject, "flexDirection", direction),
                        "justifyContent", justify),
                    "alignItems", align),
                "gap", gap),
            "padding", padding)

FlexContainers ==
    { [name |-> "div",
       layout |-> [x |-> Whole(10), y |-> Whole(20),
                   w |-> Whole(120), h |-> Whole(100)],
       computedStyles |-> flexStyles(d, j, a, g, p)] :
        d \in {Undefined, "row", "row-reverse", "column", "column-reverse"},
        j \in {Undefined, "center", "flex-end", "space-between",
               "space-around", "space-evenly"},
        a \in {Undefined, "center", "flex-end"},
        g \in {Undefined, "8px"},
        p \in {Undefined, "4px 6px"} }

InitFlex ==
    /\ args \in [container : FlexContainers,
                 children : SeqsUpTo(FlexChildren, MaxFlexChildren)]
    /\ returned = Idle
    /\ pc = "start"
    /\ IdleCore /\ IdleEngine

\* const positioned = computeFlexLayout(container, children)
ComputeFlexLayout ==
    /\ pc = "start"
    /\ returned' = computeFlexLayout(args.container, args.children)
    /\ pc' = "computeFlexLayout"
    /\ UNCHANGED <<document, viewport, node, children, currentY, index, tree,
                   element, cssRules, computed, value, parsed, args>>
    /\ UNCHANGED engineVars

NextFlex == ComputeFlexLayout

SpecFlex == InitFlex /\ [][NextFlex]_vars

\* what the call was given, read back from args
FlexDone == pc = "computeFlexLayout"
FlexStyles == args.container.computedStyles
FlexDirection == strOr(Get(FlexStyles, "flexDirection"), "row")
FlexJustify == strOr(Get(FlexStyles, "justifyContent"), "flex-start")
FlexRow == FlexDirection \in {"row", "row-reverse"}
FlexReversed == FlexDirection \in {"row-reverse", "column-reverse"}
FlexN == Len(args.children)
FlexGap == OrElse(parsePixelValue(Get(FlexStyles, "gap")), Zero)
FlexPadding == parseSpacing(Get(FlexStyles, "padding"))

\* the positioned copy of the i-th child handed in
Placed(i) == returned[IF FlexReversed THEN FlexN + 1 - i ELSE i]
MainStart(i) == IF FlexRow THEN Placed(i).layout.x ELSE Placed(i).layout.y
MainLen(i) ==
    IF FlexRow THEN args.children[i].layout.w ELSE args.children[i].layout.h

\* where the content box starts and how long it is, on the main axis
ContentStart ==
    IF FlexRow THEN Add(args.container.layout.x, FlexPadding.left)
    ELSE Add(args.container.layout.y, FlexPadding.top)
AvailableMain ==
    IF FlexRow
    THEN Sub(Sub(args.container.layout.w, FlexPadding.left), FlexPadding.right)
    ELSE Sub(Sub(args.container.layout.h, FlexPadding.top), FlexPadding.bottom)

RECURSIVE MainLenSum(_)
MainLenSum(n) == IF n = 0 THEN Zero ELSE Add(MainLenSum(n - 1), MainLen(n))

AvailableSpace ==
    Sub(AvailableMain, Add(MainLenSum(FlexN), Mul(FlexGap, Whole(FlexN - 1))))

\* C22: the first child starts at the content start plus 0 (flex-start,
\* space-between), availableSpace/2 (center), availableSpace (flex-end),
\* availableSpace/(2n) (space-around), availableSpace/(n+1) (space-evenly),
\* where availableSpace is the available main-axis size minus the children's
\* main sizes and gap*(n-1); with space-between and n > 1 the children are
\* an extra availableSpace/(n-1) apart.
FlexFirstOffset ==
    (FlexDone /\ FlexN >= 1) =>
        /\ MainStart(1) =
             Add(ContentStart,
                 CASE FlexJustify = "center" -> Div(AvailableSpace, Whole(2))
                   [] FlexJustify = "flex-end" -> AvailableSpace
                   [] FlexJustify = "space-around" ->
                          Div(AvailableSpace, Whole(2 * FlexN))
                   [] FlexJustify = "space-evenly" ->
                          Div(AvailableSpace, Whole(FlexN + 1))
                   [] OTHER -> Zero)
        /\ (FlexJustify = "space-between" /\ FlexN > 1) =>
              \A i \in 1..(FlexN - 1) :
                  Sub(Sub(MainStart(i + 1), Add(MainStart(i), MainLen(i))),
                      FlexGap)
                    = Div(AvailableSpace, Whole(FlexN - 1))

\* three children in a padded column with a gap, space-around: the first
\* child is moved off the content start
FlexOffsetCase ==
    /\ FlexDone
    /\ FlexN = 3
    /\ FlexJustify = "space-around"
    /\ FlexDirection = "column"
    /\ "gap" \in DOMAIN FlexStyles
    /\ "padding" \in DOMAIN FlexStyles
    /\ MainStart(1) # ContentStart

\* C23: a '-reverse' direction returns the positioned children of the
\* matching non-reverse direction, each child at the same position, with
\* only the order of the array reversed.
FlexReverseIsReordering ==
    (FlexDone /\ FlexReversed) =>
        LET plain == computeFlexLayout(
                         [args.container EXCEPT !.computedStyles =
                              Set(FlexStyles, "flexDirection",
                                  IF FlexRow THEN "row" ELSE "column")],
                         args.children)
        IN  /\ Len(returned) = Len(plain)
            /\ \A i \in 1..Len(plain) : returned[i] = plain[Len(plain) + 1 - i]

\* row-reverse over the children a, b, c, centred: c comes first in the array
FlexReverseCase ==
    /\ FlexDone
    /\ FlexDirection = "row-reverse"
    /\ FlexJustify = "center"
    /\ [i \in 1..FlexN |-> args.children[i].name] = <<"a", "b", "c">>
    /\ [i \in 1..Len(returned) |-> returned[i].name] = <<"c", "b", "a">>
    /\ returned[1].layout.x # returned[3].layout.x

-----------------------------------------------------------------------------
(* processChildren, step by step *)

\* the child element the running loop of processChildren is about to visit
NextChild == ChildElements(document.body)[index]

\* C24: processChildren visits the children in document order; the cursor
\* starts at the parent's layout.y and after each child that produces a node
\* is that node's y + h; the node is at y = round(cursor + margin.top) for
\* the cursor before it. A child without a node leaves cursor and list as
\* they are: no bottom margin and no parent padding is ever added.
CursorFollowsChildren ==
    [][ /\ (pc = "start" /\ pc' = "children") =>
              /\ index' = 1
              /\ children' = <<>>
              /\ currentY' = node'.layout.y
        /\ (pc = "children" /\ pc' = "children") =>
              /\ index' = index + 1
              /\ IF children' = children THEN currentY' = currentY
                 ELSE /\ Len(children') = Len(children) + 1
                      /\ SubSeq(children', 1, Len(children)) = children
                      /\ children'[Len(children')].id = NextChild.id
                      /\ children'[Len(children')].layout.y =
                            Round(Add(currentY,
                                      parseSpacing(Get(Resolved(NextChild),
                                                       "margin")).top))
                      /\ currentY' = Add(children'[Len(children')].layout.y,
                                         children'[Len(children')].layout.h)
      ]_vars

\* a padded body whose first child has a bottom margin, after its second
\* child produced a node
CursorCase ==
    /\ pc = "children"
    /\ index = 3
    /\ Len(children) = 2
    /\ Truthy(parseSpacing(Get(getComputedStyles(document.body, cssRules),
                               "padding")).top)
    /\ Truthy(parseSpacing(Get(Resolved(ChildElements(document.body)[1]),
                               "margin")).bottom)
    /\ currentY = Add(children[2].layout.y, children[2].layout.h)
    /\ children[2].layout.y = Add(children[1].layout.y, children[1].layout.h)


-----------------------------------------------------------------------------
(* parseCSS.js: estimateContentHeight, estimateTextLines;                  *)
(* toDesignTree.js: estimateElementHeight, called on its own               *)

\* parseDOM.js: textContent of the element data, null unless the element
\* holds a single text node
dataTextContent(el) ==
    IF Len(el.childNodes) = 1 /\ el.childNodes[1].nodeType = 3
    THEN trim(el.childNodes[1].textContent) ELSE Null

\* const charsPerLine = Math.floor(containerWidth / charWidth)
textCharsPerLine(styles) ==
    Floor(Div(OrElse(parsePixelValue(Get(styles, "width")), Whole(1000)),
              Mul(OrElse(parsePixelValue(Get(styles, "fontSize")), Whole(16)),
                  <<1, 2>>)))

estimateTextLines(text, styles) ==
    IF Falsy(text) THEN Whole(1)
    ELSE Max(Whole(1), Ceil(Div(Whole(Len(text)), textCharsPerLine(styles))))

\* the line height of estimateElementHeight: fontSize * 1.4 || 22
contentLineHeightAsElement(styles, fontSizePx) ==
    OrElse(parsePixelValue(Get(styles, "lineHeight")),
           OrElse(Mul(fontSizePx, <<7, 5>>), Whole(22)))

\* parsePixelValue(lineHeight) || parsePixelValue(fontSize) * 1.2 || 19.2
contentLineHeight(styles, fontSizePx) ==
    OrElse(parsePixelValue(Get(styles, "lineHeight")),
           OrElse(Mul(fontSizePx, <<6, 5>>), <<96, 5>>))

\* if (element.textContent) { ... } else { contentHeight = lineHeight }
contentHeightOf(textContent, styles, lineHeight) ==
    IF Falsy(textContent) THEN lineHeight
    ELSE Mul(estimateTextLines(textContent, styles), lineHeight)

estimateContentHeight(el, styles) ==
    paddedHeight(
        contentHeightOf(el.textContent, styles,
            contentLineHeight(styles, parsePixelValue(Get(styles, "fontSize")))),
        parseSpacing(Get(styles, "padding")))

HeightElements ==
    { DivEl(Null, <<>>),
      DivEl(Null, <<Text("  ")>>),
      Element("P", "", <<>>, Null, <<Text("Hello world")>>),
      Element("P", "", <<>>, Null,
              <<Text("a text of some thirty characters")>>),
      DivEl(Null, <<DivEl(Null, <<>>), DivEl(Null, <<>>)>>),
      DivEl(Null, <<Text("Hi"), Element("SPAN", "", <<>>, Null, <<>>)>>),
      DivEl(Null, <<Text("Hi"), DivEl(Null, <<>>), DivEl(Null, <<>>),
                    DivEl(Null, <<>>)>>) }

\* the styles argument: Undefined stands for a property left out
heightStyles(fontSize, lineHeight, width, padding) ==
    LET put(o, k, v) == IF v = Undefined THEN o ELSE Set(o, k, v)
    IN  put(put(put(put(EmptyObject, "fontSize", fontSize),
                    "lineHeight", lineHeight),
                "width", width),
            "padding", padding)

HeightStyles ==
    { heightStyles(f, l, w, p) :
        f \in {Undefined, "16px", "10px", "0"},
        l \in {Undefined, "normal", "20px", "0px"},
        w \in {"auto", "50px", "5px"},
        p \in {Undefined, "5px 0 3px"} }

InitHeight ==
    /\ element \in HeightElements
    /\ computed \in HeightStyles
    /\ args = [textContent |-> dataTextContent(element)]
    /\ returned = Idle
    /\ pc = "start"
    /\ document = [body |-> NoElement, styleSheets |-> <<>>]
    /\ viewport = DEFAULT_VIEWPORT
    /\ node = NoElement
    /\ children = <<>>
    /\ currentY = Zero
    /\ index = 0
    /\ tree = NoElement
    /\ cssRules = <<>>
    /\ value = ""
    /\ parsed = Idle
    /\ IdleEngine

\* height = estimateElementHeight(element, styles)
EstimateElementHeight ==
    /\ pc = "start"
    /\ returned' = estimateElementHeight(element, computed)
    /\ pc' = "estimateElementHeight"
    /\ UNCHANGED <<document, viewport, node, children, currentY, index, tree,
                   element, cssRules, computed, value, parsed, args>>
    /\ UNCHANGED engineVars

\* return estimateContentHeight(element, styles)
EstimateContentHeight ==
    /\ pc = "start"
    /\ returned' = estimateContentHeight(args, computed)
    /\ pc' = "estimateContentHeight"
    /\ UNCHANGED <<document, viewport, node, children, currentY, index, tree,
                   element, cssRules, computed, value, parsed, args>>
    /\ UNCHANGED engineVars

NextHeight == EstimateElementHeight \/ EstimateContentHeight

SpecHeight == InitHeight /\ [][NextHeight]_vars

\* the line height: an explicit non-zero pixel line-height, else the font
\* size times the multiplier, else (font size 0) the fallback
LineHeightBy(multiplier, fallback) ==
    LET explicit == parsePixelValue(Get(computed, "lineHeight"))
        fontSizePx == parsePixelValue(Get(computed, "fontSize"))
    IN  IF explicit # Zero THEN explicit
        ELSE IF fontSizePx # Zero THEN Mul(fontSizePx, multiplier)
        ELSE fallback

HeightPadding == parseSpacing(Get(computed, "padding"))

\* lines = max(1, ceil(textLength / charsPerLine)),
\* charsPerLine = floor(containerWidthPx / (fontSizePx * 0.5))
LinesOf(text) ==
    LET fontSizePx == OrElse(parsePixelValue(Get(computed, "fontSize")), Whole(16))
        containerWidthPx == OrElse(parsePixelValue(Get(computed, "width")), Whole(1000))
        perLine == Floor(Div(containerWidthPx, Mul(fontSizePx, <<1, 2>>)))
    IN  Max(Whole(1), Ceil(Div(Whole(Len(text)), perLine)))

\* C25: estimateElementHeight returns contentHeight + padding.top +
\* padding.bottom, where contentHeight is lines * lineHeight for an element
\* with direct text (however many child elements it has),
\* max(lineHeight, childCount * lineHeight) for one with child elements and
\* no direct text, and lineHeight otherwise.
EstimateByCases ==
    pc = "estimateElementHeight" =>
        LET lineHeight == LineHeightBy(<<7, 5>>, Whole(22))
            text == getDirectTextContent(element)
            childCount == Len(ChildElements(element))
            contentHeight ==
                IF text # Null THEN Mul(LinesOf(text), lineHeight)
                ELSE IF childCount > 0
                     THEN Max(lineHeight, Mul(Whole(childCount), lineHeight))
                ELSE lineHeight
        IN  returned = Add(Add(contentHeight, HeightPadding.top),
                           HeightPadding.bottom)

\* C26: for an element without text and without children the estimate is
\* the line height plus the vertical padding, and the line height is an
\* explicit non-zero pixel line-height for both estimators, else
\* fontSize * 1.4 (22 for a font size of 0) in estimateElementHeight and
\* fontSize * 1.2 (19.2 for a font size of 0) in estimateContentHeight.
LineHeightPerEstimator ==
    /\ (/\ pc = "estimateElementHeight"
        /\ getDirectTextContent(element) = Null
        /\ Len(ChildElements(element)) = 0)
       => returned = Add(Add(LineHeightBy(<<7, 5>>, Whole(22)),
                             HeightPadding.top), HeightPadding.bottom)
    /\ (pc = "estimateContentHeight" /\ args.textContent = Null)
       => returned = Add(Add(LineHeightBy(<<6, 5>>, <<96, 5>>),
                             HeightPadding.top), HeightPadding.bottom)

\* estimateContentHeight on an empty element with a font size of 0 and
\* line-height normal: 19.2 plus the padding of 5 and 3
LineHeightCase ==
    /\ pc = "estimateContentHeight"
    /\ args.textContent = Null
    /\ Get(computed, "fontSize") = "0"
    /\ Get(computed, "lineHeight") = "normal"
    /\ "padding" \in DOMAIN computed
    /\ returned = <<136, 5>>


-----------------------------------------------------------------------------
(* The tree against the document *)

\* the child elements of el that are not excluded, in document order
KeptChildren(el) == SelectSeq(ChildElements(el), LAMBDA c : ~Excluded(c))

\* n and everything under it mirror el: the name is the lower-cased tag and
\* the children are the nodes of the kept child elements, in their order
RECURSIVE Mirrors(_, _)
Mirrors(n, el) ==
    /\ n.name = toLowerCase(el.tagName)
    /\ Len(Kids(n)) = Len(KeptChildren(el))
    /\ \A i \in 1..Len(KeptChildren(el)) :
          /\ ~IsNull(Kids(n)[i])
          /\ Get(Kids(n)[i], "id") = KeptChildren(el)[i].id
          /\ Mirrors(Kids(n)[i], KeptChildren(el)[i])

\* the elements under el that are not excluded and have no excluded ancestor
RECURSIVE VisibleElements(_)
VisibleElements(el) ==
    IF Excluded(el) THEN {}
    ELSE {el} \cup UNION {VisibleElements(ChildElements(el)[i]) :
                             i \in DOMAIN ChildElements(el)}

\* how many nodes of the tree under n carry the id
Occurrences(n, id) ==
    Cardinality({i \in 1..Len(PreOrder(n)) : Get(PreOrder(n)[i], "id") = id})

\* C27: the tree keeps the structure of the document: the children of a node
\* are exactly the nodes of its element's child elements that are not
\* excluded, in document order, every node is named by the lower-cased tag,
\* and every element that is neither excluded nor under an excluded element
\* has exactly one node.
TreeMirrorsDocument ==
    (pc = "done" /\ HasBody /\ ~Excluded(document.body)) =>
        /\ Mirrors(tree, document.body)
        /\ \A el \in VisibleElements(document.body) :
              Occurrences(tree, el.id) = 1
        /\ Len(PreOrder(tree)) = Cardinality(VisibleElements(document.body))

\* a body of three children, the first a heading, the second excluded, with
\* kept and excluded elements two levels down
TreeMirrorsCase ==
    /\ pc = "done"
    /\ HasBody
    /\ ~Excluded(document.body)
    /\ Len(ChildElements(document.body)) = 3
    /\ ChildElements(document.body)[1].tagName = "H1"
    /\ Excluded(ChildElements(document.body)[2])
    /\ Len(Kids(tree)) = 2
    /\ tree.children[1].name = "h1"
    /\ Len(Kids(tree.children[2])) = 2
    /\ Len(ChildElements(ChildElements(document.body)[3])) = 5



-----------------------------------------------------------------------------
(* capture.js: ScreenshotEngine, getEngine, cleanup and the capture calls. *)
(* An async function runs without interruption from one await to the next; *)
(* each action below is one such stretch of one call.  A handle (a browser  *)
(* process, a page, an engine) is a position in the list of the objects     *)
(* created so far, 0 standing for null.  Of the pages, the one opened by    *)
(* the latest call of each caller is kept; it counts as open until          *)
(* page.close() has been called on it.                                      *)

Callers == {"c1", "c2"}

\* calls made in all
MaxCalls == 2

\* the functions that open a page; they differ in what is awaited inside try
PageOps ==
    {"captureUrl", "captureHtml", "getPageHtml", "extractComponents",
     "captureComponent"}

\* the promises awaited inside try { ... }, in order
TrySteps(op) ==
    CASE op = "captureUrl" ->
             <<"setViewport", "goto", "screenshot", "title", "evaluate">>
      [] op = "captureHtml" ->
             <<"setViewport", "setContent", "screenshot", "evaluate">>
      [] op = "getPageHtml" -> <<"goto", "content">>
      [] op = "extractComponents" ->
             <<"setViewport", "goto", "evaluate", "title">>
      [] op = "captureComponent" ->
             <<"setViewport", "goto", "$", "boundingBox", "screenshot",
               "evaluate">>

\* if (!element) return {...}; if (!bounds) return {...}
ReturnsEarly(op, step) ==
    op = "captureComponent" /\ step \in {"$", "boundingBox"}

\* constructor(): this.browser = null; this.chrome = null
NewEngine == [browser |-> 0, chrome |-> 0]

IdleCall ==
    [op |-> "", pc |-> "idle", engine |-> 0, proc |-> 0, step |-> 0,
     outcome |-> "", count |-> 0]

NoPage == [open |-> FALSE, closes |-> 0]

RECURSIVE callsBegun(_)
callsBegun(cs) ==
    IF cs = {} THEN 0
    ELSE LET c == CHOOSE x \in cs : TRUE
         IN  calls[c].count + callsBegun(cs \ {c})

InitEngine ==
    /\ engineInstance = 0
    /\ engines = <<>>
    /\ browsers = <<>>
    /\ pages = [c \in Callers |-> NoPage]
    /\ calls = [c \in Callers |-> IdleCall]
    /\ pc = "start"
    /\ IdleCore /\ IdleCalls

\* getEngine(): if (!engineInstance) engineInstance = new ScreenshotEngine()
getEngine == IF engineInstance = 0 THEN Len(engines) + 1 ELSE engineInstance
enginesWithInstance ==
    IF engineInstance = 0 THEN Append(engines, NewEngine) ELSE engines

\* the call returns or throws
finish(call, outcome) ==
    [IdleCall EXCEPT !.outcome = outcome, !.count = call.count]

\* init() to its first await: if (this.browser) return; findBrowser(); launch
initStart(call, this, found) ==
    IF this.browser # 0 THEN [call EXCEPT !.pc = "initialized"]
    ELSE IF ~found THEN finish(call, "throw")
    ELSE [call EXCEPT !.pc = "launching"]

\* const engine = getEngine(); await engine.init()
\* (which of the PageOps the call is shows inside try, and is drawn there)
Begin(c) ==
    /\ calls[c].pc = "idle"
    /\ callsBegun(Callers) < MaxCalls
    /\ \E found \in BOOLEAN :
          calls' = [calls EXCEPT ![c] =
                       initStart([@ EXCEPT !.op = "page", !.engine = getEngine,
                                           !.outcome = "", !.count = @ + 1],
                                 enginesWithInstance[getEngine], found)]
    /\ engines' = enginesWithInstance
    /\ engineInstance' = getEngine
    /\ pages' = [pages EXCEPT ![c] = NoPage]
    /\ UNCHANGED <<browsers, pc>>
    /\ UNCHANGED <<document, viewport, node, children, currentY, index, tree,
                   element, cssRules, computed, value, parsed, args, returned>>

\* a browser process is started
launched == Append(browsers, [running |-> TRUE])

\* this.chrome = await chromeLauncher.launch(...); puppeteer.connect(...)
LauncherLaunched(c) ==
    /\ calls[c].pc = "launching"
    /\ browsers' = launched
    /\ engines' = [engines EXCEPT ![calls[c].engine].chrome = Len(launched)]
    /\ calls' = [calls EXCEPT ![c].pc = "connecting", ![c].proc = Len(launched)]
    /\ UNCHANGED <<engineInstance, pages, pc>>
    /\ UNCHANGED <<document, viewport, node, children, currentY, index, tree,
                   element, cssRules, computed, value, parsed, args, returned>>

\* chromeLauncher.launch rejects: catch, puppeteer.launch(...)
LauncherFailed(c) ==
    /\ calls[c].pc = "launching"
    /\ calls' = [calls EXCEPT ![c].pc = "fallback"]
    /\ UNCHANGED <<engineInstance, engines, browsers, pages, pc>>
    /\ UNCHANGED <<document, viewport, node, children, currentY, index, tree,
                   element, cssRules, computed, value, parsed, args, returned>>

\* this.browser = await puppeteer.connect(...): init returns
Connected(c) ==
    /\ calls[c].pc = "connecting"
    /\ engines' = [engines EXCEPT ![calls[c].engine].browser = calls[c].proc]
    /\ calls' = [calls EXCEPT ![c].pc = "initialized", ![c].proc = 0]
    /\ UNCHANGED <<engineInstance, browsers, pages, pc>>
    /\ UNCHANGED <<document, viewport, node, children, currentY, index, tree,
                   element, cssRules, computed, value, parsed, args, returned>>

\* puppeteer.connect rejects: catch, puppeteer.launch(...)
ConnectFailed(c) ==
    /\ calls[c].pc = "connecting"
    /\ calls' = [calls EXCEPT ![c].pc = "fallback", ![c].proc = 0]
    /\ UNCHANGED <<engineInstance, engines, browsers, pages, pc>>
    /\ UNCHANGED <<document, viewport, node, children, currentY, index, tree,
                   element, cssRules, computed, value, parsed, args, returned>>

\* this.browser = await puppeteer.launch(...): init returns
FallbackLaunched(c) ==
    /\ calls[c].pc = "fallback"
    /\ browsers' = launched
    /\ engines' = [engines EXCEPT ![calls[c].engine].browser = Len(launched)]
    /\ calls' = [calls EXCEPT ![c].pc = "initialized"]
    /\ UNCHANGED <<engineInstance, pages, pc>>
    /\ UNCHANGED <<document, viewport, node, children, currentY, index, tree,
                   element, cssRules, computed, value, parsed, args, returned>>

\* puppeteer.launch rejects: init throws, and so does the call
FallbackFailed(c) ==
    /\ calls[c].pc = "fallback"
    /\ calls' = [calls EXCEPT ![c] = finish(@, "throw")]
    /\ UNCHANGED <<engineInstance, engines, browsers, pages, pc>>
    /\ UNCHANGED <<document, viewport, node, children, currentY, index, tree,
                   element, cssRules, computed, value, parsed, args, returned>>

\* engine.browser.newPage(): a TypeError if the browser is null by now
newPage(call, this) ==
    IF this.browser = 0 THEN finish(call, "throw")
    ELSE [call EXCEPT !.pc = "opening", !.proc = this.browser]

\* after await init(): const page = await engine.browser.newPage()
OpenPage(c) ==
    /\ calls[c].pc = "initialized"
    /\ calls' = [calls EXCEPT ![c] = newPage(@, engines[calls[c].engine])]
    /\ UNCHANGED <<engineInstance, engines, browsers, pages, pc>>
    /\ UNCHANGED <<document, viewport, node, children, currentY, index, tree,
                   element, cssRules, computed, value, parsed, args, returned>>

\* newPage resolves: the page is open and the first step of try is awaited
PageOpened(c) ==
    /\ calls[c].pc = "opening"
    /\ browsers[calls[c].proc].running
    /\ pages' = [pages EXCEPT ![c] = [open |-> TRUE, closes |-> 0]]
    /\ \E op \in PageOps :
          calls' = [calls EXCEPT ![c].pc = "try", ![c].proc = 0,
                                 ![c].op = op, ![c].step = 1]
    /\ UNCHANGED <<engineInstance, engines, browsers, pc>>
    /\ UNCHANGED <<document, viewport, node, children, currentY, index, tree,
                   element, cssRules, computed, value, parsed, args, returned>>

\* newPage rejects: no page was opened, the call throws
NewPageFailed(c) ==
    /\ calls[c].pc = "opening"
    /\ calls' = [calls EXCEPT ![c] = finish(@, "throw")]
    /\ UNCHANGED <<engineInstance, engines, browsers, pages, pc>>
    /\ UNCHANGED <<document, viewport, node, children, currentY, index, tree,
                   element, cssRules, computed, value, parsed, args, returned>>

\* a step of try resolves and the next one is awaited
StepDone(c) ==
    /\ calls[c].pc = "try"
    /\ calls[c].step < Len(TrySteps(calls[c].op))
    /\ calls' = [calls EXCEPT ![c].step = @ + 1]
    /\ UNCHANGED <<engineInstance, engines, browsers, pages, pc>>
    /\ UNCHANGED <<document, viewport, node, children, currentY, index, tree,
                   element, cssRules, computed, value, parsed, args, returned>>

\* finally { await page.close() } entered, the outcome kept for afterwards
enterFinally(call, outcome) ==
    [call EXCEPT !.pc = "closing", !.outcome = outcome, !.op = "page",
                 !.step = 0]

\* return ... inside try: after the last step, or early in captureComponent
ReturnFromTry(c) ==
    /\ calls[c].pc = "try"
    /\ \/ calls[c].step = Len(TrySteps(calls[c].op))
       \/ ReturnsEarly(calls[c].op, TrySteps(calls[c].op)[calls[c].step])
    /\ calls' = [calls EXCEPT ![c] = enterFinally(@, "return")]
    /\ UNCHANGED <<engineInstance, engines, browsers, pages, pc>>
    /\ UNCHANGED <<document, viewport, node, children, currentY, index, tree,
                   element, cssRules, computed, value, parsed, args, returned>>

\* the exception leaves the call at once, as without try ... finally
throwFromTryUnguarded(call) == finish(call, "throw")

\* an exception inside try { ... } finally { await page.close() }
throwFromTry(call) == enterFinally(call, "throw")

\* a step of try rejects
StepFailed(c) ==
    /\ calls[c].pc = "try"
    /\ calls' = [calls EXCEPT ![c] = throwFromTry(@)]
    /\ UNCHANGED <<engineInstance, engines, browsers, pages, pc>>
    /\ UNCHANGED <<document, viewport, node, children, currentY, index, tree,
                   element, cssRules, computed, value, parsed, args, returned>>

\* page.close() resolves: the call returns its value or rethrows
PageClosed(c) ==
    /\ calls[c].pc = "closing"
    /\ pages' = [pages EXCEPT ![c].open = FALSE, ![c].closes = @ + 1]
    /\ calls' = [calls EXCEPT ![c] = finish(@, @.outcome)]
    /\ UNCHANGED <<engineInstance, engines, browsers, pc>>
    /\ UNCHANGED <<document, viewport, node, children, currentY, index, tree,
                   element, cssRules, computed, value, parsed, args, returned>>

\* close(), second half: if (this.chrome) { await this.chrome.kill(); ... }
closeChrome(call, this) ==
    IF this.chrome # 0 THEN [call EXCEPT !.pc = "killing", !.proc = this.chrome]
    ELSE [call EXCEPT !.pc = "closed", !.proc = 0]

\* close(), first half: if (this.browser) { await this.browser.close(); ... }
closeStart(call, this) ==
    IF this.browser # 0
    THEN [call EXCEPT !.pc = "closingBrowser", !.proc = this.browser]
    ELSE closeChrome(call, this)

\* cleanup(): if (engineInstance) { await engineInstance.close(); ... }
BeginCleanup(c) ==
    /\ calls[c].pc = "idle"
    /\ callsBegun(Callers) < MaxCalls
    /\ calls' = [calls EXCEPT ![c] =
                    IF engineInstance = 0
                    THEN finish([@ EXCEPT !.count = @ + 1], "return")
                    ELSE closeStart([@ EXCEPT !.op = "cleanup",
                                              !.engine = engineInstance,
                                              !.outcome = "",
                                              !.count = @ + 1],
                                    engines[engineInstance])]
    /\ pages' = [pages EXCEPT ![c] = NoPage]
    /\ UNCHANGED <<engineInstance, engines, browsers, pc>>
    /\ UNCHANGED <<document, viewport, node, children, currentY, index, tree,
                   element, cssRules, computed, value, parsed, args, returned>>

stopped(p) == [browsers EXCEPT ![p].running = FALSE]

\* browser.close() resolves; this.browser = null; then the chrome handle
BrowserClosed(c) ==
    /\ calls[c].pc = "closingBrowser"
    /\ browsers' = stopped(calls[c].proc)
    /\ engines' = [engines EXCEPT ![calls[c].engine].browser = 0]
    /\ calls' = [calls EXCEPT ![c] = closeChrome(@, engines[calls[c].engine])]
    /\ UNCHANGED <<engineInstance, pages, pc>>
    /\ UNCHANGED <<document, viewport, node, children, currentY, index, tree,
                   element, cssRules, computed, value, parsed, args, returned>>

\* chrome.kill() resolves; this.chrome = null; close returns
ChromeKilled(c) ==
    /\ calls[c].pc = "killing"
    /\ browsers' = stopped(calls[c].proc)
    /\ engines' = [engines EXCEPT ![calls[c].engine].chrome = 0]
    /\ calls' = [calls EXCEPT ![c].pc = "closed", ![c].proc = 0]
    /\ UNCHANGED <<engineInstance, pages, pc>>
    /\ UNCHANGED <<document, viewport, node, children, currentY, index, tree,
                   element, cssRules, computed, value, parsed, args, returned>>

\* after await engineInstance.close(): engineInstance = null
CleanupDone(c) ==
    /\ calls[c].pc = "closed"
    /\ engineInstance' = 0
    /\ calls' = [calls EXCEPT ![c] = finish(@, "return")]
    /\ UNCHANGED <<engines, browsers, pages, pc>>
    /\ UNCHANGED <<document, viewport, node, children, currentY, index, tree,
                   element, cssRules, computed, value, parsed, args, returned>>

\* an awaited promise of the call settles
Settle(c) ==
    \/ LauncherLaunched(c) \/ LauncherFailed(c)
    \/ Connected(c) \/ ConnectFailed(c)
    \/ FallbackLaunched(c) \/ FallbackFailed(c)
    \/ OpenPage(c) \/ PageOpened(c) \/ NewPageFailed(c)
    \/ StepDone(c) \/ ReturnFromTry(c) \/ StepFailed(c) \/ PageClosed(c)
    \/ BrowserClosed(c) \/ ChromeKilled(c) \/ CleanupDone(c)

NextEngine == \E c \in Callers : Begin(c) \/ BeginCleanup(c) \/ Settle(c)

SpecEngine == InitEngine /\ [][NextEngine]_vars

\* every awaited promise settles: the event loop resumes each call
SpecEngineLive == SpecEngine /\ \A c \in Callers : WF_vars(Settle(c))

\* the browser processes that are running
RunningBrowsers == {p \in DOMAIN browsers : browsers[p].running}

\* the browser processes the module can still reach through engineInstance
HeldBrowsers ==
    IF engineInstance = 0 THEN {}
    ELSE {engines[engineInstance].browser, engines[engineInstance].chrome}

\* C29: there is never more than one launched browser, whatever the
\* interleaving of the overlapping calls (init launches at most one browser
\* until close()), and when no call is in flight, after close() or cleanup()
\* too, no browser is running that the engine holds no handle of.
BrowserIsSingleton ==
    /\ Cardinality(RunningBrowsers) <= 1
    /\ (\A c \in Callers : calls[c].pc = "idle")
           => RunningBrowsers \subseteq HeldBrowsers

\* C30: a page opened by a call is open only while that call is inside its
\* try block or awaiting page.close() in finally, so no call has returned
\* or thrown with its page open; page.close() is called on it once; and
\* every open page is eventually closed, whether the steps after the page
\* was opened succeed or one of them fails.
PagesClosedByTheirCall ==
    /\ [](\A c \in Callers :
             /\ pages[c].closes <= 1
             /\ pages[c].open =>
                   (calls[c].pc \in {"try", "closing"} /\ pages[c].closes = 0))
    /\ \A c \in Callers :
          pages[c].open ~> (~pages[c].open /\ pages[c].closes = 1)

\* a call has thrown after a step of its try block failed, its page closed
PageClosedAfterFailure ==
    \E c \in Callers :
        /\ calls[c].pc = "idle"
        /\ calls[c].outcome = "throw"
        /\ ~pages[c].open
        /\ pages[c].closes = 1

=============================================================================
